---- MODULE Spec2Model ----
(***************************************************************************)
(* A model of CleanBookmarks: URL normalisation, deduplication, HTML       *)
(* export and re-load, classification, the LLM retry loop, the worker pool *)
(* of the bookmark processor, the category tree and the LLM organizer.     *)
(*                                                                         *)
(* Strings are sequences of one-character strings.  Every part of the      *)
(* program has its own specification (SpecNorm, SpecDedup, ...); the       *)
(* variables of the other parts stay at their idle value.                  *)
(***************************************************************************)
EXTENDS Integers, Sequences, FiniteSets, TLC

VARIABLES
    norm,       \* URL normalisation: [which, url, once, twice, pc]
    dd,         \* deduplication: [which, input, unique, duplicates, pc]
    ex,         \* HTML export and re-load: [organized, show, stats, html, loaded, pc]
    cl,         \* classification: [config, bookmark, context, learning, semantic,
                \*                  user, now, which, result, again, pc]
    llm,        \* one LLM call: [which, enable, cached, max_retries, st, replies,
                \*                outcome, pc]
    wp,         \* classification worker pool: [bookmarks, llm_enable, max_workers,
                \*   tasks, cache, categories_found, classified_bookmarks]
    tr,         \* category tree: [bookmarks, llm_response, organized, used, pc]
    og,         \* LLM organizer: [llm_enable, organizer_enable, api_key, max_retries,
                \*                 cache, stats, log]
    cf,         \* configuration manager: [file, env, config, lock, op, last,
                \*                         returned]
    hc,         \* health check: [which, bookmarks, max_workers, futures, results, pc]
    mg,         \* merge_and_classify: [inputs, rules, fetch_mode, fetch_limit, after,
                \*                      used_names, tree, written, output_total, pc]
    pb,         \* process_bookmarks: [all_bookmarks, max_workers, futures,
                \*   duplicate_hashes, stats, processed_bookmarks, pc]
    fb,         \* feedback learning: [which, config, learning, semantic, user, now,
                \*   classification_cache, feedbacks, returned]
    lz,         \* lazily loaded classifier: [bookmarks, max_workers, classifier,
                \*   constructed, tasks]
    cc,         \* classification cache: [which, max_workers, classification_cache,
                \*   tasks]
    ch,         \* configuration history: [file, env, config, config_history,
                \*   recorded, last, pc]
    mon,        \* performance monitor: [monitoring, monitor_thread, threads,
                \*   system_metrics, caller, join_left, calls, stops]
    lru,        \* cache manager: [max_size, ttl, cache, access_times, creation_times,
                \*   now, threads, calls, last, evicted]
    emo         \* emoji cleaner: [title, cleaned, again, text, loaded, first, rounds, pc]

vars == <<norm, dd, ex, cl, llm, wp, tr, og, cf, hc, mg, pb, fb, lz, cc, ch, mon, lru, emo>>

(***************************************************************************)
(* Bounds of the model.                                                    *)
(***************************************************************************)
MaxUrlLen == 3

MaxBookmarks == 3

(***************************************************************************)
(* The value of each variable while another part of the program runs.      *)
(***************************************************************************)
IdleNorm == [which |-> "none", url |-> <<>>, once |-> <<>>, twice |-> <<>>, pc |-> 0]

IdleDedup ==
    [which |-> "none", input |-> <<>>, unique |-> <<>>, duplicates |-> <<>>, pc |-> 0]

IdleExport ==
    [organized |-> <<>>, show |-> TRUE, stats |-> FALSE, html |-> <<>>, loaded |-> <<>>, pc |-> 0]

IdleClassify ==
    [config |-> <<>>, bookmark |-> <<>>, context |-> FALSE, learning |-> <<>>,
     semantic |-> <<>>, user |-> <<>>, now |-> 0, which |-> "none", result |-> <<>>,
     again |-> <<>>, pc |-> 0]

IdleLLM ==
    [which |-> "none", enable |-> FALSE, cached |-> FALSE, max_retries |-> 0,
     st |-> [calls |-> 0, left |-> 0, data |-> <<>>], replies |-> <<>>,
     outcome |-> "pending", pc |-> "start"]

IdlePool ==
    [bookmarks |-> <<>>, llm_enable |-> FALSE, max_workers |-> 0, tasks |-> <<>>,
     cache |-> {}, categories_found |-> <<>>, classified_bookmarks |-> <<>>]

IdleTree ==
    [bookmarks |-> <<>>, llm_response |-> [kind |-> "none"], organized |-> <<>>,
     used |-> FALSE, pc |-> "idle"]

IdleOrganizer ==
    [llm_enable |-> FALSE, organizer_enable |-> <<>>, api_key |-> FALSE, max_retries |-> 0,
     cache |-> <<>>, stats |-> [calls |-> 0, cache_hits |-> 0, failures |-> 0],
     log |-> <<>>]

IdleConfig ==
    [file |-> [kind |-> "missing"], env |-> <<>>, config |-> <<>>, lock |-> 0,
     op |-> [name |-> "none"], last |-> [kind |-> "none"], returned |-> [name |-> "none"]]

IdleHealth ==
    [which |-> "none", bookmarks |-> <<>>, max_workers |-> 0, futures |-> <<>>,
     results |-> <<>>, pc |-> "idle"]

IdleMerge ==
    [inputs |-> <<>>, rules |-> <<>>, fetch_mode |-> "none", fetch_limit |-> 0,
     after |-> <<>>, used_names |-> {}, tree |-> <<>>, written |-> <<>>,
     output_total |-> 0, pc |-> "idle"]

IdleProcess ==
    [all_bookmarks |-> <<>>, max_workers |-> 0, futures |-> <<>>, duplicate_hashes |-> {},
     stats |-> [duplicates_removed |-> 0, processed_bookmarks |-> 0],
     processed_bookmarks |-> <<>>, pc |-> "idle"]

IdleFeedback ==
    [which |-> "none", config |-> <<>>, learning |-> <<>>, semantic |-> <<>>, user |-> <<>>,
     now |-> 0, classification_cache |-> <<>>, feedbacks |-> <<>>,
     returned |-> [name |-> "none"]]

IdleLazy ==
    [bookmarks |-> <<>>, max_workers |-> 0, classifier |-> 0, constructed |-> 0,
     tasks |-> <<>>]

IdleCaches ==
    [which |-> "none", max_workers |-> 0, classification_cache |-> <<>>, tasks |-> <<>>]

IdleHistory ==
    [file |-> [kind |-> "missing"], env |-> <<>>, config |-> <<>>, config_history |-> <<>>,
     recorded |-> 0, last |-> [name |-> "none"], pc |-> "idle"]

IdleMonitor ==
    [monitoring |-> FALSE, monitor_thread |-> 0, threads |-> <<>>, system_metrics |-> <<>>,
     caller |-> "none", join_left |-> 0, calls |-> 0, stops |-> 0]

IdleLru ==
    [max_size |-> 0, ttl |-> 0, cache |-> <<>>, access_times |-> <<>>,
     creation_times |-> <<>>, now |-> 0, threads |-> <<>>, calls |-> 0,
     last |-> [name |-> "none"], evicted |-> [key |-> 0, before |-> <<>>]]

IdleEmoji ==
    [title |-> <<>>, cleaned |-> <<>>, again |-> <<>>, text |-> <<>>, loaded |-> <<>>,
     first |-> <<>>, rounds |-> 0, pc |-> "idle"]

\* every part but part v is idle
OthersIdle(v) ==
    /\ IF v = "norm" THEN TRUE ELSE norm = IdleNorm
    /\ IF v = "dd" THEN TRUE ELSE dd = IdleDedup
    /\ IF v = "ex" THEN TRUE ELSE ex = IdleExport
    /\ IF v = "cl" THEN TRUE ELSE cl = IdleClassify
    /\ IF v = "llm" THEN TRUE ELSE llm = IdleLLM
    /\ IF v = "wp" THEN TRUE ELSE wp = IdlePool
    /\ IF v = "tr" THEN TRUE ELSE tr = IdleTree
    /\ IF v = "og" THEN TRUE ELSE og = IdleOrganizer
    /\ IF v = "cf" THEN TRUE ELSE cf = IdleConfig
    /\ IF v = "hc" THEN TRUE ELSE hc = IdleHealth
    /\ IF v = "mg" THEN TRUE ELSE mg = IdleMerge
    /\ IF v = "pb" THEN TRUE ELSE pb = IdleProcess
    /\ IF v = "fb" THEN TRUE ELSE fb = IdleFeedback
    /\ IF v = "lz" THEN TRUE ELSE lz = IdleLazy
    /\ IF v = "cc" THEN TRUE ELSE cc = IdleCaches
    /\ IF v = "ch" THEN TRUE ELSE ch = IdleHistory
    /\ IF v = "mon" THEN TRUE ELSE mon = IdleMonitor
    /\ IF v = "lru" THEN TRUE ELSE lru = IdleLru
    /\ IF v = "emo" THEN TRUE ELSE emo = IdleEmoji

\* a step of part v leaves the other parts alone
OthersUnchanged(v) ==
    /\ IF v = "norm" THEN TRUE ELSE norm' = norm
    /\ IF v = "dd" THEN TRUE ELSE dd' = dd
    /\ IF v = "ex" THEN TRUE ELSE ex' = ex
    /\ IF v = "cl" THEN TRUE ELSE cl' = cl
    /\ IF v = "llm" THEN TRUE ELSE llm' = llm
    /\ IF v = "wp" THEN TRUE ELSE wp' = wp
    /\ IF v = "tr" THEN TRUE ELSE tr' = tr
    /\ IF v = "og" THEN TRUE ELSE og' = og
    /\ IF v = "cf" THEN TRUE ELSE cf' = cf
    /\ IF v = "hc" THEN TRUE ELSE hc' = hc
    /\ IF v = "mg" THEN TRUE ELSE mg' = mg
    /\ IF v = "pb" THEN TRUE ELSE pb' = pb
    /\ IF v = "fb" THEN TRUE ELSE fb' = fb
    /\ IF v = "lz" THEN TRUE ELSE lz' = lz
    /\ IF v = "cc" THEN TRUE ELSE cc' = cc
    /\ IF v = "ch" THEN TRUE ELSE ch' = ch
    /\ IF v = "mon" THEN TRUE ELSE mon' = mon
    /\ IF v = "lru" THEN TRUE ELSE lru' = lru
    /\ IF v = "emo" THEN TRUE ELSE emo' = emo

(***************************************************************************)
(* Python str operations on sequences of characters.  Ascii lists the      *)
(* printable ASCII characters in code point order; the double quote, the   *)
(* backslash and the backtick are written by name.                         *)
(***************************************************************************)
Ascii ==
    <<" ", "!", "dquote", "#", "$", "%", "&", "'", "(", ")", "*", "+", ",", "-", ".", "/",
      "0", "1", "2", "3", "4", "5", "6", "7", "8", "9", ":", ";", "<", "=", ">", "?",
      "@", "A", "B", "C", "D", "E", "F", "G", "H", "I", "J", "K", "L", "M", "N", "O",
      "P", "Q", "R", "S", "T", "U", "V", "W", "X", "Y", "Z", "[", "backslash", "]", "^", "_",
      "backtick", "a", "b", "c", "d", "e", "f", "g", "h", "i", "j", "k", "l", "m", "n", "o",
      "p", "q", "r", "s", "t", "u", "v", "w", "x", "y", "z", "{", "|", "}", "~" >>

\* ord(c) for the printable ASCII characters; chr(n) is Ascii[n - 31]
CodePoint ==
    [c \in {Ascii[i] : i \in 1..Len(Ascii)} |->
        31 + (CHOOSE i \in 1..Len(Ascii) : Ascii[i] = c)]

SetMin(S) == CHOOSE x \in S : \A y \in S : x <= y

SetMax(S) == CHOOSE x \in S : \A y \in S : x >= y

\* str.isalpha() of an ASCII character
IsAlpha(c) ==
    \/ (CodePoint[c] >= 65 /\ CodePoint[c] <= 90)
    \/ (CodePoint[c] >= 97 /\ CodePoint[c] <= 122)

\* the ASCII letters and digits
AlNum == {c \in DOMAIN CodePoint : IsAlpha(c) \/ (CodePoint[c] >= 48 /\ CodePoint[c] <= 57)}

\* str.lower() of one character
LowerChar(c) ==
    IF CodePoint[c] >= 65 /\ CodePoint[c] <= 90 THEN Ascii[CodePoint[c] + 32 - 31] ELSE c

\* str.lower()
Lower(s) == [i \in 1..Len(s) |-> LowerChar(s[i])]

\* s[from:] of Python, 1-based: the characters from position from on
From(s, from) == SubSeq(s, from, Len(s))

\* str.find(c, start): position of the first c at or after from, 0 when absent
Find(s, c, from) ==
    LET I == {i \in from..Len(s) : s[i] = c}
    IN  IF I = {} THEN 0 ELSE SetMin(I)

\* str.rfind(c): position of the last c, 0 when absent
RFind(s, c) ==
    LET I == {i \in 1..Len(s) : s[i] = c}
    IN  IF I = {} THEN 0 ELSE SetMax(I)

StartsWith(s, p) == Len(s) >= Len(p) /\ SubSeq(s, 1, Len(p)) = p

EndsWith(s, p) == Len(s) >= Len(p) /\ SubSeq(s, Len(s) - Len(p) + 1, Len(s)) = p

\* str.lstrip(chars), str.rstrip(chars), str.strip()
LStrip(s, cs) ==
    LET I == {i \in 1..Len(s) : s[i] \notin cs}
    IN  IF I = {} THEN <<>> ELSE From(s, SetMin(I))

RStrip(s, cs) ==
    LET I == {i \in 1..Len(s) : s[i] \notin cs}
    IN  IF I = {} THEN <<>> ELSE SubSeq(s, 1, SetMax(I))

Strip(s) == LStrip(RStrip(s, {" "}), {" "})

\* str.split(c): the pieces between the occurrences of c
RECURSIVE Split(_, _)
Split(s, c) ==
    LET i == Find(s, c, 1)
    IN  IF i = 0 THEN <<s>>
        ELSE <<SubSeq(s, 1, i - 1)>> \o Split(From(s, i + 1), c)

\* sep.join(parts)
RECURSIVE Join(_, _)
Join(parts, sep) ==
    IF parts = <<>> THEN <<>>
    ELSE IF Len(parts) = 1 THEN parts[1]
    ELSE parts[1] \o sep \o Join(Tail(parts), sep)

\* str.replace(old, new): every non-overlapping occurrence, left to right
RECURSIVE Replace(_, _, _)
Replace(s, old, new) ==
    IF Len(s) < Len(old) THEN s
    ELSE IF StartsWith(s, old) THEN new \o Replace(From(s, Len(old) + 1), old, new)
    ELSE <<s[1]>> \o Replace(Tail(s), old, new)

\* s < t for Python strings: lexicographic by code point
RECURSIVE StrLess(_, _)
StrLess(s, t) ==
    IF t = <<>> THEN FALSE
    ELSE IF s = <<>> THEN TRUE
    ELSE IF s[1] # t[1] THEN CodePoint[s[1]] < CodePoint[t[1]]
    ELSE StrLess(Tail(s), Tail(t))

\* list.sort() of a list of (key, value) tuples, (k1, v1) < (k2, v2) as for
\* Python tuples of strings: insertion of the last pair into the sorted rest
RECURSIVE SortPairs(_)
SortPairs(l) ==
    LET PairLess(p, q) == StrLess(p[1], q[1]) \/ (p[1] = q[1] /\ StrLess(p[2], q[2]))
        RECURSIVE InsertPair(_, _)
        InsertPair(p, sorted) ==
            IF sorted = <<>> THEN <<p>>
            ELSE IF PairLess(p, sorted[1]) THEN <<p>> \o sorted
            ELSE <<sorted[1]>> \o InsertPair(p, Tail(sorted))
    IN  IF l = <<>> THEN <<>>
        ELSE InsertPair(l[Len(l)], SortPairs(SubSeq(l, 1, Len(l) - 1)))

(***************************************************************************)
(* urllib.parse, as the normalisers call it (CPython 3.11).  The tab, CR   *)
(* and LF that urlsplit removes and the brackets of an IPv6 host are not   *)
(* printable-ASCII input here, so urlsplit raises for no modelled URL.     *)
(***************************************************************************)
uses_netloc ==
    { <<>>,
      <<"f", "t", "p">>,
      <<"h", "t", "t", "p">>,
      <<"g", "o", "p", "h", "e", "r">>,
      <<"n", "n", "t", "p">>,
      <<"t", "e", "l", "n", "e", "t">>,
      <<"i", "m", "a", "p">>,
      <<"w", "a", "i", "s">>,
      <<"f", "i", "l", "e">>,
      <<"m", "m", "s">>,
      <<"h", "t", "t", "p", "s">>,
      <<"s", "h", "t", "t", "p">>,
      <<"s", "n", "e", "w", "s">>,
      <<"p", "r", "o", "s", "p", "e", "r", "o">>,
      <<"r", "t", "s", "p">>,
      <<"r", "t", "s", "p", "s">>,
      <<"r", "t", "s", "p", "u">>,
      <<"r", "s", "y", "n", "c">>,
      <<"s", "v", "n">>,
      <<"s", "v", "n", "+", "s", "s", "h">>,
      <<"s", "f", "t", "p">>,
      <<"n", "f", "s">>,
      <<"g", "i", "t">>,
      <<"g", "i", "t", "+", "s", "s", "h">>,
      <<"w", "s">>,
      <<"w", "s", "s">> }

uses_params ==
    { <<>>,
      <<"f", "t", "p">>,
      <<"h", "d", "l">>,
      <<"p", "r", "o", "s", "p", "e", "r", "o">>,
      <<"h", "t", "t", "p">>,
      <<"i", "m", "a", "p">>,
      <<"h", "t", "t", "p", "s">>,
      <<"s", "h", "t", "t", "p">>,
      <<"r", "t", "s", "p">>,
      <<"r", "t", "s", "p", "s">>,
      <<"r", "t", "s", "p", "u">>,
      <<"s", "i", "p">>,
      <<"s", "i", "p", "s">>,
      <<"m", "m", "s">>,
      <<"s", "f", "t", "p">>,
      <<"t", "e", "l">> }

\* urlsplit(url): [scheme, netloc, path, query, fragment]
urlsplit(url0) ==
    LET scheme_chars == AlNum \cup {"+", "-", "."}
        SplitQuery(scheme, netloc, url4, fragment) ==
            LET q == Find(url4, "?", 1)
            IN  [scheme   |-> scheme,
                 netloc   |-> netloc,
                 path     |-> IF q > 0 THEN SubSeq(url4, 1, q - 1) ELSE url4,
                 query    |-> IF q > 0 THEN From(url4, q + 1) ELSE <<>>,
                 fragment |-> fragment]
        SplitFragment(scheme, netloc, url3) ==
            LET f == Find(url3, "#", 1)
            IN  SplitQuery(scheme, netloc,
                           IF f > 0 THEN SubSeq(url3, 1, f - 1) ELSE url3,
                           IF f > 0 THEN From(url3, f + 1) ELSE <<>>)
        SplitNetloc(scheme, url2) ==
            LET hasNetloc == StartsWith(url2, <<"/", "/">>)
                delims    == {k \in 3..Len(url2) : url2[k] \in {"/", "?", "#"}}
                delim     == IF delims = {} THEN Len(url2) + 1 ELSE SetMin(delims)
            IN  SplitFragment(scheme,
                              IF hasNetloc THEN SubSeq(url2, 3, delim - 1) ELSE <<>>,
                              IF hasNetloc THEN From(url2, delim) ELSE url2)
        SplitScheme(url1) ==
            LET i         == Find(url1, ":", 1)
                hasScheme == /\ i > 1
                             /\ IsAlpha(url1[1])
                             /\ \A k \in 1..(i - 1) : url1[k] \in scheme_chars
            IN  SplitNetloc(IF hasScheme THEN Lower(SubSeq(url1, 1, i - 1)) ELSE <<>>,
                            IF hasScheme THEN From(url1, i + 1) ELSE url1)
    IN  SplitScheme(LStrip(url0, {" "}))

\* urlunsplit((scheme, netloc, url, query, fragment))
urlunsplit(scheme, netloc, path, query, fragment) ==
    LET withNetloc ==
            \/ netloc # <<>>
            \/ (scheme # <<>> /\ scheme \in uses_netloc
                /\ ~StartsWith(path, <<"/", "/">>))
        url1 == IF withNetloc
                THEN <<"/", "/">> \o netloc
                     \o (IF path # <<>> /\ path[1] # "/" THEN <<"/">> ELSE <<>>)
                     \o path
                ELSE path
        url2 == IF scheme # <<>> THEN scheme \o <<":">> \o url1 ELSE url1
        url3 == IF query # <<>> THEN url2 \o <<"?">> \o query ELSE url2
    IN  IF fragment # <<>> THEN url3 \o <<"#">> \o fragment ELSE url3

\* urlparse(url): urlsplit and, by _splitparams, the ;params of the last
\* path segment
urlparse(url) ==
    LET splitparams(p) ==
            LET slash == RFind(p, "/")
                i     == IF slash > 0 THEN Find(p, ";", slash) ELSE Find(p, ";", 1)
            IN  IF i = 0 THEN <<p, <<>> >>
                ELSE <<SubSeq(p, 1, i - 1), From(p, i + 1)>>
        WithParams(r, sp) ==
            [scheme |-> r.scheme, netloc |-> r.netloc, path |-> sp[1],
             params |-> sp[2], query |-> r.query, fragment |-> r.fragment]
        ParseResult(r) ==
            WithParams(r, IF r.scheme \in uses_params /\ Find(r.path, ";", 1) > 0
                          THEN splitparams(r.path)
                          ELSE <<r.path, <<>> >>)
    IN  ParseResult(urlsplit(url))

\* urlunparse((scheme, netloc, url, params, query, fragment))
urlunparse(scheme, netloc, path, params, query, fragment) ==
    urlunsplit(scheme, netloc,
               IF params # <<>> THEN path \o <<";">> \o params ELSE path,
               query, fragment)

HexDigits == <<"0", "1", "2", "3", "4", "5", "6", "7",
               "8", "9", "A", "B", "C", "D", "E", "F">>

\* unquote(s): %XX (hexadecimal digits of either case) is decoded when it
\* names a printable ASCII character; the escapes of other bytes, which no
\* modelled URL holds, are left as they are
RECURSIVE unquote(_)
unquote(s) ==
    LET HexValue(c) ==
            LET I == {i \in 1..16 : HexDigits[i] = c \/ LowerChar(HexDigits[i]) = c}
            IN  IF I = {} THEN -1 ELSE SetMin(I) - 1
    IN  IF s = <<>> THEN <<>>
        ELSE IF /\ s[1] = "%"
                /\ Len(s) >= 3
                /\ HexValue(s[2]) >= 0
                /\ HexValue(s[3]) >= 0
                /\ 16 * HexValue(s[2]) + HexValue(s[3]) >= 32
                /\ 16 * HexValue(s[2]) + HexValue(s[3]) <= 126
             THEN <<Ascii[16 * HexValue(s[2]) + HexValue(s[3]) - 31]>>
                  \o unquote(From(s, 4))
             ELSE <<s[1]>> \o unquote(Tail(s))

\* quote_plus(s): a space becomes +, a character outside _ALWAYS_SAFE %XX
RECURSIVE quote_plus(_)
quote_plus(s) ==
    IF s = <<>> THEN <<>>
    ELSE (IF s[1] \in AlNum \cup {"_", ".", "-", "~"} THEN <<s[1]>>
          ELSE IF s[1] = " " THEN <<"+">>
          ELSE <<"%", HexDigits[(CodePoint[s[1]] \div 16) + 1],
                 HexDigits[(CodePoint[s[1]] % 16) + 1]>>)
         \o quote_plus(Tail(s))

\* parse_qsl(qs, keep_blank_values): the list of (name, value) of the fields
\* of qs; parse_field is one turn of its loop (zero or one pair)
parse_qsl(qs, keep_blank_values) ==
    LET parse_field(name_value) ==
            LET eq    == Find(name_value, "=", 1)
                name  == IF eq > 0 THEN SubSeq(name_value, 1, eq - 1) ELSE name_value
                value == IF eq > 0 THEN From(name_value, eq + 1) ELSE <<>>
            IN  IF name_value = <<>> THEN <<>>
                ELSE IF eq = 0 /\ ~keep_blank_values THEN <<>>
                ELSE IF value # <<>> \/ keep_blank_values
                     THEN << <<unquote(Replace(name, <<"+">>, <<" ">>)),
                               unquote(Replace(value, <<"+">>, <<" ">>))>> >>
                     ELSE <<>>
        RECURSIVE parse_fields(_)
        parse_fields(fields) ==
            IF fields = <<>> THEN <<>>
            ELSE parse_field(fields[1]) \o parse_fields(Tail(fields))
    IN  IF qs = <<>> THEN <<>> ELSE parse_fields(Split(qs, "&"))

\* urlencode(q, doseq=True) of a list of (str, str)
RECURSIVE urlencode(_)
urlencode(q) ==
    IF q = <<>> THEN <<>>
    ELSE quote_plus(q[1][1]) \o <<"=">> \o quote_plus(q[1][2])
         \o (IF Len(q) > 1 THEN <<"&">> \o urlencode(Tail(q)) ELSE <<>>)

\* parse_qs(qs): the dict name -> list of values, as the list of
\* (name, values) in the order the names are first met
parse_qs(qs) ==
    LET RECURSIVE ValuesOf(_, _)
        ValuesOf(ps, name) ==
            IF ps = <<>> THEN <<>>
            ELSE (IF ps[1][1] = name THEN <<ps[1][2]>> ELSE <<>>)
                 \o ValuesOf(Tail(ps), name)
        RECURSIVE NamesOf(_, _)
        NamesOf(ps, seen) ==
            IF ps = <<>> THEN <<>>
            ELSE IF ps[1][1] \in seen THEN NamesOf(Tail(ps), seen)
            ELSE <<ps[1][1]>> \o NamesOf(Tail(ps), seen \cup {ps[1][1]})
        Dict(pairs, names) ==
            [i \in 1..Len(names) |-> <<names[i], ValuesOf(pairs, names[i])>>]
        FromPairs(pairs) == Dict(pairs, NamesOf(pairs, {}))
    IN  FromPairs(parse_qsl(qs, FALSE))

(***************************************************************************)
(* The three URL normalisers used to detect duplicates.                    *)
(***************************************************************************)
TRACKING_KEYS ==
    { <<"u", "t", "m", "_", "s", "o", "u", "r", "c", "e">>,
      <<"u", "t", "m", "_", "m", "e", "d", "i", "u", "m">>,
      <<"u", "t", "m", "_", "c", "a", "m", "p", "a", "i", "g", "n">>,
      <<"u", "t", "m", "_", "t", "e", "r", "m">>,
      <<"u", "t", "m", "_", "c", "o", "n", "t", "e", "n", "t">>,
      <<"u", "t", "m", "_", "i", "d">>,
      <<"u", "t", "m", "_", "n", "a", "m", "e">>,
      <<"g", "c", "l", "i", "d">>,
      <<"f", "b", "c", "l", "i", "d">>,
      <<"m", "s", "c", "l", "k", "i", "d">>,
      <<"i", "g", "s", "h", "i", "d">>,
      <<"m", "k", "t", "_", "t", "o", "k">>,
      <<"m", "c", "_", "c", "i", "d">>,
      <<"m", "c", "_", "e", "i", "d">>,
      <<"r", "e", "f">>,
      <<"r", "e", "f", "_", "s", "r", "c">>,
      <<"r", "e", "f", "e", "r", "r", "e", "r">>,
      <<"s", "p", "m">>,
      <<"s", "c", "m">>,
      <<"v", "e", "d">>,
      <<"e", "i">>,
      <<"o", "q">>,
      <<"a", "q", "s">>,
      <<"s", "r", "s", "l", "t", "i", "d">>,
      <<"t", "r", "k">> }

Dedup_tracking_params ==
    { <<"u", "t", "m", "_", "s", "o", "u", "r", "c", "e">>,
      <<"u", "t", "m", "_", "m", "e", "d", "i", "u", "m">>,
      <<"u", "t", "m", "_", "c", "a", "m", "p", "a", "i", "g", "n">>,
      <<"u", "t", "m", "_", "c", "o", "n", "t", "e", "n", "t">>,
      <<"u", "t", "m", "_", "t", "e", "r", "m">>,
      <<"f", "b", "c", "l", "i", "d">>,
      <<"g", "c", "l", "i", "d">>,
      <<"m", "s", "c", "l", "k", "i", "d">>,
      <<"_", "g", "a">>,
      <<"r", "e", "f">>,
      <<"s", "o", "u", "r", "c", "e">> }

Enhanced_tracking_params ==
    { <<"u", "t", "m", "_", "s", "o", "u", "r", "c", "e">>,
      <<"u", "t", "m", "_", "m", "e", "d", "i", "u", "m">>,
      <<"u", "t", "m", "_", "c", "a", "m", "p", "a", "i", "g", "n">>,
      <<"u", "t", "m", "_", "t", "e", "r", "m">>,
      <<"u", "t", "m", "_", "c", "o", "n", "t", "e", "n", "t">>,
      <<"f", "b", "c", "l", "i", "d">>,
      <<"g", "c", "l", "i", "d">>,
      <<"r", "e", "f">>,
      <<"s", "o", "u", "r", "c", "e">>,
      <<"f", "r", "o", "m">> }

\* merge_bookmarks.normalize_url
normalize_url(url) ==
    LET Kept(kv) == ~(\/ StartsWith(Lower(kv[1]), <<"u", "t", "m", "_">>)
                      \/ Lower(kv[1]) \in TRACKING_KEYS)
        DropPort(scheme, netloc1, colon) ==
            IF /\ colon > 0
               /\ \/ (scheme = <<"h", "t", "t", "p">>
                       /\ From(netloc1, colon + 1) = <<"8", "0">>)
                  \/ (scheme = <<"h", "t", "t", "p", "s">>
                       /\ From(netloc1, colon + 1) = <<"4", "4", "3">>)
            THEN SubSeq(netloc1, 1, colon - 1) ELSE netloc1
        Netloc(scheme, netloc1) == DropPort(scheme, netloc1, RFind(netloc1, ":"))
        DropWww(netloc0) ==
            IF StartsWith(netloc0, <<"w", "w", "w", ".">>)
            THEN From(netloc0, 5) ELSE netloc0
        Path(path) ==
            IF Len(path) > 1 /\ EndsWith(path, <<"/">>)
            THEN SubSeq(path, 1, Len(path) - 1) ELSE path
        Rebuild(parts) ==
            urlunsplit(Lower(parts.scheme),
                       Netloc(Lower(parts.scheme), DropWww(Lower(parts.netloc))),
                       Path(parts.path),
                       urlencode(SortPairs(SelectSeq(parse_qsl(parts.query, TRUE), Kept))),
                       <<>>)
    IN  Rebuild(urlsplit(url))

\* BookmarkDeduplicator._normalize_url
Dedup_normalize_url(url) ==
    LET Kept(kv) == kv[1] \notin Dedup_tracking_params
        QueryString(filtered) ==
            Join([i \in 1..Len(filtered) |->
                    filtered[i][1] \o <<"=">> \o Join(filtered[i][2], <<"&">>)],
                 <<"&">>)
        WithQuery(normalized, query_string) ==
            IF query_string # <<>> THEN normalized \o <<"?">> \o query_string
            ELSE normalized
        Rebuild(parsed) ==
            WithQuery(parsed.scheme \o <<":", "/", "/">> \o parsed.netloc
                        \o RStrip(parsed.path, {"/"}),
                      QueryString(SortPairs(SelectSeq(parse_qs(parsed.query), Kept))))
    IN  IF url = <<>> THEN <<>> ELSE Rebuild(urlparse(Strip(Lower(url))))

\* EnhancedBookmarkProcessor._normalize_url
Enhanced_normalize_url(url) ==
    LET Kept(param) ==
            /\ Find(param, "=", 1) > 0
            /\ SubSeq(param, 1, Find(param, "=", 1) - 1) \notin Enhanced_tracking_params
        Query(query) ==
            IF query # <<>> THEN Join(SelectSeq(Split(query, "&"), Kept), <<"&">>)
            ELSE query
        Rebuild(parsed) ==
            urlunparse(parsed.scheme,
                       Replace(parsed.netloc, <<"w", "w", "w", ".">>, <<>>),
                       RStrip(parsed.path, {"/"}), <<>>, Query(parsed.query), <<>>)
    IN  Rebuild(urlparse(Lower(url)))

(***************************************************************************)
(* SpecNorm: a URL is normalised, and the result normalised again.         *)
(***************************************************************************)
InputChars == {"a", "w", ".", "/", ";", "?", "=", "&", ":", "#"}

StringsUpTo(n) == UNION {[1..k -> InputChars] : k \in 0..n}

\* bookmark URLs as browsers export them
SampleUrls ==
    { <<"h", "t", "t", "p", ":", "/", "/", "w", "w", "w", ".", "w", "w", "w", ".",
        "a", ".", "c", "o", "m", "/">>,
      <<"h", "t", "t", "p", ":", "/", "/", "a", ".", "c", "o", "m", "/", "?",
        "b", "=", "1", "&", "b", "=", "2">>,
      <<"h", "t", "t", "p", ":", "/", "/", "a", ".", "c", "o", "m", "/", "x", ";", "/">>,
      <<"H", "T", "T", "P", ":", "/", "/", "A", ".", "c", "o", "m", ":", "8", "0", "/",
        "?", "e", "i", "=", "1", "&", "a", "=", "/">>,
      <<"h", "t", "t", "p", "s", ":", "/", "/", "a", ".", "c", "o", "m", ":", "4", "4", "3",
        "/", "p", "/", "?", "u", "t", "m", "_", "i", "d", "=", "1", "&", "r", "e", "f",
        "=", "x", "#", "f">>,
      <<" ", "h", "t", "t", "p", ":", "/", "/", "a", ".", "c", "o", "m", "/", "?",
        "f", "r", "o", "m", "=", "a", "&", "b", " ">>,
      <<"h", "t", "t", "p", ":", "/", "/", "w", "w", "w", "w", "w", "w", ".", ".",
        "c", "o", "m">> }

InitNorm ==
    /\ norm \in [which : {"merge", "dedup", "enhanced"},
                 url   : StringsUpTo(MaxUrlLen) \cup SampleUrls,
                 once  : {<<>>},
                 twice : {<<>>},
                 pc    : {0}]
    /\ OthersIdle("norm")

\* normalize_url(u), then normalize_url of its result
MergeNormalize ==
    /\ norm.which = "merge"
    /\ norm.pc < 2
    /\ norm' = IF norm.pc = 0
               THEN [norm EXCEPT !.once = normalize_url(norm.url), !.pc = 1]
               ELSE [norm EXCEPT !.twice = normalize_url(norm.once), !.pc = 2]
    /\ OthersUnchanged("norm")

DedupNormalize ==
    /\ norm.which = "dedup"
    /\ norm.pc < 2
    /\ norm' = IF norm.pc = 0
               THEN [norm EXCEPT !.once = Dedup_normalize_url(norm.url), !.pc = 1]
               ELSE [norm EXCEPT !.twice = Dedup_normalize_url(norm.once), !.pc = 2]
    /\ OthersUnchanged("norm")

EnhancedNormalize ==
    /\ norm.which = "enhanced"
    /\ norm.pc < 2
    /\ norm' = IF norm.pc = 0
               THEN [norm EXCEPT !.once = Enhanced_normalize_url(norm.url), !.pc = 1]
               ELSE [norm EXCEPT !.twice = Enhanced_normalize_url(norm.once), !.pc = 2]
    /\ OthersUnchanged("norm")

NextNorm == MergeNormalize \/ DedupNormalize \/ EnhancedNormalize

SpecNorm == InitNorm /\ [][NextNorm]_vars

\* C1: URL normalisation is idempotent: for each of the three normalisers,
\* normalising the normalised URL again gives the same string.
C1_NormalizeIdempotent == norm.pc = 2 => norm.twice = norm.once

(***************************************************************************)
(* Similarity of strings.  A similarity is the exact fraction <<n, d>> of   *)
(* the float the code computes.                                            *)
(***************************************************************************)
\* sum of weight * similarity for pairs <<weight, similarity>>, the weights
\* in hundredths (0.6 is 60)
RECURSIVE WeightedSum(_)
WeightedSum(terms) ==
    LET RECURSIVE GCD(_, _)
        GCD(m, n) == IF n = 0 THEN m ELSE GCD(n, m % n)
        Reduced(n, d) == <<n \div GCD(n, d), d \div GCD(n, d)>>
        Add(f, w, g) == Reduced(f[1] * g[2] * 100 + w * g[1] * f[2], f[2] * g[2] * 100)
    IN  IF terms = <<>> THEN <<0, 1>>
        ELSE Add(WeightedSum(Tail(terms)), terms[1][1], terms[1][2])

\* similarity >= threshold
AtLeast(f, g) == f[1] * g[2] >= g[1] * f[2]

\* difflib.SequenceMatcher(None, a, b).ratio(): twice the number of matched
\* characters over the two lengths; the matched blocks are the longest common
\* block (the earliest in a, then the earliest in b) and, recursively, the
\* blocks to its left and to its right
ratio(a, b) ==
    LET RECURSIVE Matches(_, _)
        Matches(x, y) ==
            LET blocks ==
                    {t \in (1..Len(x)) \X (1..Len(y)) \X (1..Len(x)) :
                        /\ t[1] + t[3] - 1 <= Len(x)
                        /\ t[2] + t[3] - 1 <= Len(y)
                        /\ SubSeq(x, t[1], t[1] + t[3] - 1)
                           = SubSeq(y, t[2], t[2] + t[3] - 1)}
                Longest(k) ==
                    CHOOSE t \in blocks :
                        /\ t[3] = k
                        /\ \A u \in blocks :
                              u[3] = k => \/ t[1] < u[1]
                                          \/ (t[1] = u[1] /\ t[2] <= u[2])
                Around(t) ==
                    t[3] + Matches(SubSeq(x, 1, t[1] - 1), SubSeq(y, 1, t[2] - 1))
                         + Matches(From(x, t[1] + t[3]), From(y, t[2] + t[3]))
            IN  IF blocks = {} THEN 0
                ELSE Around(Longest(SetMax({t[3] : t \in blocks})))
    IN  IF Len(a) + Len(b) = 0 THEN <<1, 1>>
        ELSE <<2 * Matches(a, b), Len(a) + Len(b)>>

\* re.sub(r'\s+', ' ', s).strip(): runs of blanks become one blank
RECURSIVE CollapseSpaces(_)
CollapseSpaces(s) ==
    IF s = <<>> THEN <<>>
    ELSE IF s[1] = " " THEN
        (IF LStrip(s, {" "}) = <<>> THEN <<>>
         ELSE <<" ">> \o CollapseSpaces(LStrip(s, {" "})))
    ELSE <<s[1]>> \o CollapseSpaces(Tail(s))

\* set(s.split()) of a string whose blanks are collapsed
Words(s) == IF Strip(s) = <<>> THEN {} ELSE {w \in {Split(Strip(s), " ")[i] : i \in 1..Len(Split(Strip(s), " "))} : w # <<>>}

\* len(words1 & words2) / len(words1 | words2)
Jaccard(words1, words2) ==
    <<Cardinality(words1 \cap words2), Cardinality(words1 \cup words2)>>

(***************************************************************************)
(* BookmarkDeduplicator.  A bookmark is a record [url, title]; the         *)
(* deduplicator adds original_index (the key _original_index).             *)
(***************************************************************************)
\* BookmarkDeduplicator._clean_title: the suffix from the first - or | (and
\* the blanks before it) is cut, blanks are collapsed, the result lowered
Dedup_clean_title(title) ==
    LET CutSuffix(s, I) ==
            IF I = {} THEN s ELSE RStrip(SubSeq(s, 1, SetMin(I) - 1), {" "})
        Cut(s) == CutSuffix(s, {i \in 1..Len(s) : s[i] \in {"-", "|"}})
    IN  Lower(Strip(CollapseSpaces(Cut(Strip(title)))))

\* BookmarkDeduplicator._calculate_title_similarity
Dedup_calculate_title_similarity(title1, title2) ==
    LET Combined(c1, c2) ==
            IF c1 = <<>> \/ c2 = <<>> THEN <<0, 1>>
            ELSE WeightedSum(<< <<60, ratio(c1, c2)>>,
                                <<40, Jaccard(Words(c1), Words(c2))>> >>)
    IN  IF title1 = <<>> \/ title2 = <<>> THEN <<0, 1>>
        ELSE Combined(Dedup_clean_title(title1), Dedup_clean_title(title2))

\* BookmarkDeduplicator._calculate_url_similarity
Dedup_calculate_url_similarity(url1, url2) ==
    LET Overall(parsed1, parsed2) ==
            WeightedSum(<< <<50, IF parsed1.netloc = parsed2.netloc
                                 THEN <<1, 1>> ELSE <<0, 1>> >>,
                           <<30, ratio(parsed1.path, parsed2.path)>>,
                           <<20, ratio(parsed1.query, parsed2.query)>> >>)
    IN  IF url1 = <<>> \/ url2 = <<>> THEN <<0, 1>>
        ELSE Overall(urlparse(url1), urlparse(url2))

\* BookmarkDeduplicator._are_duplicates: the five strategies, in order
\* _exact_url_match, _normalized_url_match, _content_similarity_match,
\* _title_similarity_match, _domain_path_similarity
Dedup_are_duplicates(bookmark1, bookmark2) ==
    LET normalized_url_match(url1_norm, url2_norm) ==
            /\ url1_norm # <<>>
            /\ url2_norm # <<>>
            /\ AtLeast(Dedup_calculate_url_similarity(url1_norm, url2_norm), <<9, 10>>)
        content_similarity_match ==
            AtLeast(WeightedSum(
                        << <<60, Dedup_calculate_title_similarity(bookmark1.title,
                                                                  bookmark2.title)>>,
                           <<40, Dedup_calculate_url_similarity(bookmark1.url,
                                                                bookmark2.url)>> >>),
                    <<85, 100>>)
        title_similarity_match(title1, title2) ==
            /\ title1 # <<>>
            /\ title2 # <<>>
            /\ AtLeast(Dedup_calculate_title_similarity(title1, title2), <<8, 10>>)
        domain_path_similarity(parsed1, parsed2) ==
            /\ parsed1.netloc = parsed2.netloc
            /\ AtLeast(ratio(parsed1.path, parsed2.path), <<9, 10>>)
    IN  \/ bookmark1.url = bookmark2.url
        \/ normalized_url_match(Dedup_normalize_url(bookmark1.url),
                                Dedup_normalize_url(bookmark2.url))
        \/ content_similarity_match
        \/ title_similarity_match(Strip(bookmark1.title), Strip(bookmark2.title))
        \/ domain_path_similarity(urlparse(bookmark1.url), urlparse(bookmark2.url))

\* BookmarkDeduplicator._select_best_bookmark: max() returns the first of
\* the bookmarks of highest score; score_bookmark is in hundredths, and the
\* modelled bookmarks carry no add_date
Dedup_select_best_bookmark(similar_bookmarks) ==
    LET Contains(s, sub) ==
            \E i \in 1..(Len(s) - Len(sub) + 1) : SubSeq(s, i, i + Len(sub) - 1) = sub
        meaningful_words(words) ==
            Cardinality({i \in 1..Len(words) : Len(words[i]) > 2})
        Least(a, b) == IF a < b THEN a ELSE b
        title_score(title) ==
            IF title = <<>> THEN 0
            ELSE Least(Len(title), 30)
                 + Least(10 * meaningful_words(Split(CollapseSpaces(title), " ")), 20)
        tracking_indicators ==
            { <<"u", "t", "m", "_">>, <<"f", "b", "c", "l", "i", "d">>,
              <<"g", "c", "l", "i", "d">>, <<"r", "e", "f", "=">> }
        url_score(url) ==
            IF url = <<>> THEN 0
            ELSE (IF Len(url) < 200 THEN 10 ELSE 0)
                 + (IF StartsWith(url, <<"h", "t", "t", "p", "s", ":", "/", "/">>)
                    THEN 10 ELSE 0)
                 + (IF \E ind \in tracking_indicators : Contains(url, ind)
                    THEN 0 ELSE 20)
        score_bookmark(bookmark) == title_score(bookmark.title) + url_score(bookmark.url)
        First(best) ==
            similar_bookmarks[SetMin({k \in 1..Len(similar_bookmarks) :
                                        score_bookmark(similar_bookmarks[k]) = best})]
    IN  First(SetMax({score_bookmark(similar_bookmarks[k]) :
                         k \in 1..Len(similar_bookmarks)}))

\* the elements of seq at the positions of the set I, in order
AtIndices(seq, I) ==
    [k \in 1..Cardinality(I) |->
        seq[CHOOSE j \in I : Cardinality({m \in I : m < j}) = k - 1]]

RECURSIVE Dedup_loop(_, _, _, _, _)
\* the turn of Dedup_group below when only bookmark i, and not its whole
\* group, is marked processed
Dedup_group_unmarked(indexed, i, processed_indices, unique_bookmarks, duplicates, similar_indices) ==
    LET Keep(similar_group, best_bookmark) ==
            Dedup_loop(indexed, i + 1, processed_indices \cup {i},
                       Append(unique_bookmarks, best_bookmark),
                       duplicates \o SelectSeq(similar_group,
                                               LAMBDA b : b # best_bookmark))
    IN  Keep(AtIndices(indexed, similar_indices),
             Dedup_select_best_bookmark(AtIndices(indexed, similar_indices)))

\* BookmarkDeduplicator.remove_duplicates, one turn of the loop over i for a
\* bookmark not yet processed: the best of its group is kept, the others of
\* the group are duplicates, the group is marked processed
Dedup_group(indexed, i, processed_indices, unique_bookmarks, duplicates, similar_indices) ==
    LET Keep(similar_group, best_bookmark) ==
            Dedup_loop(indexed, i + 1, processed_indices \cup similar_indices,
                       Append(unique_bookmarks, best_bookmark),
                       duplicates \o SelectSeq(similar_group,
                                               LAMBDA b : b # best_bookmark))
    IN  Keep(AtIndices(indexed, similar_indices),
             Dedup_select_best_bookmark(AtIndices(indexed, similar_indices)))

\* BookmarkDeduplicator.remove_duplicates, the loop over i from bookmark i on
Dedup_loop(indexed, i, processed_indices, unique_bookmarks, duplicates) ==
    IF i > Len(indexed)
    THEN [unique |-> unique_bookmarks, duplicates |-> duplicates]
    ELSE IF i \in processed_indices
    THEN Dedup_loop(indexed, i + 1, processed_indices, unique_bookmarks, duplicates)
    ELSE Dedup_group(indexed, i, processed_indices, unique_bookmarks, duplicates,
                     {i} \cup {j \in (i + 1)..Len(indexed) :
                                 /\ j \notin processed_indices
                                 /\ Dedup_are_duplicates(indexed[i], indexed[j])})

\* BookmarkDeduplicator.remove_duplicates: every bookmark gets its
\* _original_index, then the loop runs
Dedup_remove_duplicates(bookmarks) ==
    Dedup_loop([i \in 1..Len(bookmarks) |->
                   [url |-> bookmarks[i].url, title |-> bookmarks[i].title,
                    original_index |-> i - 1]],
               1, {}, <<>>, <<>>)

(***************************************************************************)
(* IntelligentDeduplicator.                                                *)
(***************************************************************************)
\* IntelligentDeduplicator._normalize_url
Intelligent_normalize_url(url) ==
    LET Kept(part) ==
            /\ Find(part, "=", 1) > 0
            /\ SubSeq(part, 1, Find(part, "=", 1) - 1)
                 \notin Enhanced_tracking_params \cup {<<"c", "a", "m", "p", "a", "i", "g", "n">>}
        Query(query) ==
            IF query # <<>> THEN Join(SelectSeq(Split(query, "&"), Kept), <<"&">>)
            ELSE <<>>
        WithQuery(normalized, query) ==
            IF query # <<>> THEN normalized \o <<"?">> \o query ELSE normalized
        Rebuild(parsed) ==
            RStrip(WithQuery(parsed.scheme \o <<":", "/", "/">>
                               \o Replace(parsed.netloc, <<"w", "w", "w", ".">>, <<>>)
                               \o parsed.path,
                             Query(parsed.query)),
                   {"/"})
    IN  Rebuild(urlparse(Lower(url)))

\* IntelligentDeduplicator._string_similarity: 1 - distance / max_len, the
\* edit distance computed row by row.  In a row, current_row[j] is the least
\* of add, delete and change, delete being current_row[j - 1] + 1: unrolled,
\* the least over k <= j of (the least of add and change at k) + (j - k),
\* with current_row[0] = i at k = 0.  Rows are sequences, position j + 1
\* holding current_row[j]; a row is never empty.
Intelligent_string_similarity(s1, s2) ==
    LET Least(a, b) == IF a < b THEN a ELSE b
        AddOrChange(short, c, previous_row, i, k) ==
            IF k = 0 THEN i
            ELSE Least(previous_row[k + 1] + 1,
                       previous_row[k] + (IF short[k] # c THEN 1 ELSE 0))
        Row(short, c, previous_row, i) ==
            <<>> \o [p \in 1..(Len(short) + 1) |->
                        SetMin({AddOrChange(short, c, previous_row, i, k) + (p - 1 - k) :
                                    k \in 0..(p - 1)})]
        RECURSIVE Rows(_, _, _, _)
        Rows(short, long, i, current_row) ==
            IF i > Len(long) \/ current_row = <<>> THEN current_row
            ELSE Rows(short, long, i + 1, Row(short, long[i], current_row, i))
        Distance(short, long) ==
            Rows(short, long, 1, [j \in 1..(Len(short) + 1) |-> j - 1])[Len(short) + 1]
        Similarity(short, long) ==
            IF Len(long) > Len(short) * 2 THEN <<0, 1>>
            ELSE <<Len(long) - Distance(short, long), Len(long)>>
    IN  IF s1 = s2 THEN <<1, 1>>
        ELSE IF s1 = <<>> \/ s2 = <<>> THEN <<0, 1>>
        ELSE IF Len(s1) > Len(s2) THEN Similarity(s2, s1)
        ELSE Similarity(s1, s2)

\* IntelligentDeduplicator._url_similarity; the four site patterns
\* (youtube, github, medium, stackoverflow) match no modelled URL
Intelligent_url_similarity(url1, url2) ==
    LET Normalized(normalized_url1, normalized_url2) ==
            IF normalized_url1 = normalized_url2 THEN <<95, 100>>
            ELSE Intelligent_string_similarity(normalized_url1, normalized_url2)
    IN  IF url1 = <<>> \/ url2 = <<>> THEN <<0, 1>>
        ELSE IF url1 = url2 THEN <<1, 1>>
        ELSE Normalized(Intelligent_normalize_url(url1), Intelligent_normalize_url(url2))

\* IntelligentDeduplicator._title_similarity.  _normalize_title: every
\* character that is not a letter, a digit, _ or a blank becomes a blank,
\* blanks are collapsed, the result lowered (no modelled title holds an HTML
\* entity)
Intelligent_title_similarity(title1, title2) ==
    LET normalize_title(title) ==
            Lower(Strip(CollapseSpaces(
                [i \in 1..Len(title) |->
                    IF title[i] \in AlNum \cup {"_", " "} THEN title[i] ELSE " "])))
        Greatest(f, g) == IF AtLeast(f, g) THEN f ELSE g
        Normalized(norm_title1, norm_title2) ==
            IF norm_title1 = norm_title2 THEN <<1, 1>>
            ELSE IF Words(norm_title1) = {} \/ Words(norm_title2) = {} THEN <<0, 1>>
            ELSE Greatest(Jaccard(Words(norm_title1), Words(norm_title2)),
                          Intelligent_string_similarity(norm_title1, norm_title2))
    IN  IF title1 = <<>> \/ title2 = <<>> THEN <<0, 1>>
        ELSE Normalized(normalize_title(title1), normalize_title(title2))

\* IntelligentDeduplicator._calculate_similarity: final_similarity, with
\* _domain_similarity inlined
Intelligent_calculate_similarity(bookmark1, bookmark2) ==
    LET domain(url) == Replace(Lower(urlparse(url).netloc), <<"w", "w", "w", ".">>, <<>>)
    IN  WeightedSum(
            << <<60, Intelligent_url_similarity(bookmark1.url, bookmark2.url)>>,
               <<30, Intelligent_title_similarity(bookmark1.title, bookmark2.title)>>,
               <<10, IF domain(bookmark1.url) = domain(bookmark2.url)
                     THEN <<1, 1>> ELSE <<0, 1>> >> >>)

\* IntelligentDeduplicator.find_duplicates, the loop over i from bookmark i
\* on: the groups of two bookmarks or more
RECURSIVE Intelligent_find_loop(_, _, _, _)
Intelligent_find_loop(bookmarks, i, processed, duplicate_groups) ==
    LET Found(group) ==
            Intelligent_find_loop(bookmarks, i + 1, processed \cup group,
                                  IF Cardinality(group) > 1
                                  THEN Append(duplicate_groups,
                                              AtIndices(bookmarks, group))
                                  ELSE duplicate_groups)
    IN  IF i > Len(bookmarks) THEN duplicate_groups
        ELSE IF i \in processed
        THEN Intelligent_find_loop(bookmarks, i + 1, processed, duplicate_groups)
        ELSE Found({i} \cup {j \in (i + 1)..Len(bookmarks) :
                               /\ j \notin processed
                               /\ AtLeast(Intelligent_calculate_similarity(
                                              bookmarks[i], bookmarks[j]),
                                          <<85, 100>>)})

\* IntelligentDeduplicator.suggest_best_bookmark: max() returns the first of
\* the bookmarks of highest score; no modelled domain is a trusted one
Intelligent_suggest_best_bookmark(duplicate_group) ==
    LET score_bookmark(bookmark) ==
            (IF StartsWith(bookmark.url, <<"h", "t", "t", "p", "s", ":", "/", "/">>)
             THEN 2 ELSE 0)
            + (IF Len(bookmark.url) < 100 THEN 1 ELSE 0)
            + (IF 10 <= Len(bookmark.title) /\ Len(bookmark.title) <= 100 THEN 1 ELSE 0)
            + (IF Find(bookmark.url, "?", 1) = 0 THEN 1 ELSE 0)
        best == SetMax({score_bookmark(duplicate_group[k]) : k \in 1..Len(duplicate_group)})
    IN  duplicate_group[SetMin({k \in 1..Len(duplicate_group) :
                                   score_bookmark(duplicate_group[k]) = best})]

\* IntelligentDeduplicator.remove_duplicates: bookmarks are compared by
\* value, list.remove drops the first equal element
Intelligent_remove_duplicates(bookmarks) ==
    LET RemoveFirst(l, b) ==
            LET k == SetMin({m \in 1..Len(l) : l[m] = b})
            IN  SubSeq(l, 1, k - 1) \o From(l, k + 1)
        RECURSIVE Members(_, _, _, _)
        Members(group, best_bookmark, k, acc) ==
            IF k > Len(group) THEN acc
            ELSE IF /\ group[k] # best_bookmark
                    /\ \E m \in 1..Len(acc.unique) : acc.unique[m] = group[k]
                 THEN Members(group, best_bookmark, k + 1,
                              [unique     |-> RemoveFirst(acc.unique, group[k]),
                               duplicates |-> Append(acc.duplicates, group[k])])
                 ELSE Members(group, best_bookmark, k + 1, acc)
        RECURSIVE Groups(_, _)
        Groups(duplicate_groups, acc) ==
            IF duplicate_groups = <<>> THEN acc
            ELSE Groups(Tail(duplicate_groups),
                        Members(duplicate_groups[1],
                                Intelligent_suggest_best_bookmark(duplicate_groups[1]),
                                1, acc))
    IN  Groups(Intelligent_find_loop(bookmarks, 1, {}, <<>>),
               [unique |-> bookmarks, duplicates |-> <<>>])

(***************************************************************************)
(* SpecDedup: a list of bookmarks is deduplicated by                       *)
(* BookmarkDeduplicator, by IntelligentDeduplicator or by the two passes   *)
(* of BookmarkProcessor.process_files.                                     *)
(***************************************************************************)
\* bookmarks as the loader produces them: two pages of one site, the same
\* title on another site, the same page with a tracking parameter, an
\* unrelated page, a third page of the first site with the first title
BookmarkPool ==
    {
       [url   |-> <<"h", "t", "t", "p", ":", "/", "/", "a", ".", "c", "o",
                    "/", "p", "g", "1">>,
        title |-> <<"A", "b">>],
       [url   |-> <<"h", "t", "t", "p", ":", "/", "/", "a", ".", "c", "o",
                    "/", "p", "g", "2">>,
        title |-> <<"C", "d">>],
       [url   |-> <<"h", "t", "t", "p", ":", "/", "/", "b", ".", "c", "o", "/">>,
        title |-> <<"A", "b">>],
       [url   |-> <<"h", "t", "t", "p", ":", "/", "/", "a", ".", "c", "o",
                    "/", "p", "g", "1", "?", "r", "e", "f", "=", "x">>,
        title |-> <<"A", "b">>],
       [url   |-> <<"h", "t", "t", "p", ":", "/", "/", "c", ".", "c", "o",
                    "/", "z">>,
        title |-> <<"E", "f", " ", "-", " ", "g", "h">>],
       [url   |-> <<"h", "t", "t", "p", ":", "/", "/", "a", ".", "c", "o",
                    "/", "p", "g", "3">>,
        title |-> <<"A", "b">>] }

\* the input lists: up to MaxBookmarks bookmarks of the pool, repeats allowed
BookmarkLists == UNION {[1..n -> BookmarkPool] : n \in 0..MaxBookmarks}

\* the fast URL pass of BookmarkProcessor.process_files: the first bookmark
\* of every URL
fast_unique(all_bookmarks) ==
    AtIndices(all_bookmarks,
              {i \in 1..Len(all_bookmarks) :
                  \A j \in 1..(i - 1) : all_bookmarks[j].url # all_bookmarks[i].url})

InitDedup ==
    /\ dd \in [which      : {"dedup", "intelligent", "process"},
               input      : BookmarkLists,
               unique     : {<<>>},
               duplicates : {<<>>},
               pc         : {0}]
    /\ OthersIdle("dd")

\* the returned (unique_bookmarks, duplicates) are recorded
Deduplicated(result) ==
    [dd EXCEPT !.unique = result.unique, !.duplicates = result.duplicates, !.pc = 1]

\* BookmarkDeduplicator.remove_duplicates(bookmarks)
DedupRemoveDuplicates ==
    /\ dd.which = "dedup"
    /\ dd.pc = 0
    /\ dd' = Deduplicated(Dedup_remove_duplicates(dd.input))
    /\ OthersUnchanged("dd")

\* IntelligentDeduplicator.remove_duplicates(bookmarks)
IntelligentRemoveDuplicates ==
    /\ dd.which = "intelligent"
    /\ dd.pc = 0
    /\ dd' = Deduplicated(Intelligent_remove_duplicates(dd.input))
    /\ OthersUnchanged("dd")

\* the deduplication of BookmarkProcessor.process_files: the fast URL pass,
\* then BookmarkDeduplicator on what it keeps
ProcessFilesDedup ==
    /\ dd.which = "process"
    /\ dd.pc = 0
    /\ dd' = Deduplicated(Dedup_remove_duplicates(fast_unique(dd.input)))
    /\ OthersUnchanged("dd")

NextDedup == DedupRemoveDuplicates \/ IntelligentRemoveDuplicates \/ ProcessFilesDedup

SpecDedup == InitDedup /\ [][NextDedup]_vars

\* C2: deduplication never drops a URL that has no duplicate: a bookmark
\* whose normalised URL no other bookmark of the input has is in the
\* deduplicated list and is not among the removed bookmarks.
C2_UniqueUrlKept ==
    LET Normalized(url) ==
            IF dd.which = "intelligent" THEN Intelligent_normalize_url(url)
            ELSE Dedup_normalize_url(url)
        NoDuplicate(i) ==
            \A j \in 1..Len(dd.input) :
                j # i => Normalized(dd.input[j].url) # Normalized(dd.input[i].url)
    IN  dd.pc = 1 =>
            \A i \in 1..Len(dd.input) :
                NoDuplicate(i) =>
                    /\ \E k \in 1..Len(dd.unique) : dd.unique[k].url = dd.input[i].url
                    /\ \A k \in 1..Len(dd.duplicates) :
                          dd.duplicates[k].url # dd.input[i].url

\* C3: deduplication never increases the bookmark count: the deduplicated
\* list is no longer than the input, and every bookmark (URL and title) is
\* in it at most as often as in the input, so none is invented or repeated.
C3_DedupNeverAdds ==
    LET Count(l, b) ==
            Cardinality({k \in 1..Len(l) : l[k].url = b.url /\ l[k].title = b.title})
    IN  dd.pc = 1 =>
            /\ Len(dd.unique) <= Len(dd.input)
            /\ \A k \in 1..Len(dd.unique) :
                  Count(dd.unique, dd.unique[k]) <= Count(dd.input, dd.unique[k])

\* process_files has run on a list of which both passes removed a bookmark
C3_BothPassesRemoved ==
    /\ dd.pc = 1
    /\ dd.which = "process"
    /\ Len(dd.unique) >= 1
    /\ Len(dd.unique) < Len(fast_unique(dd.input))
    /\ Len(fast_unique(dd.input)) < Len(dd.input)

\* C14: IntelligentDeduplicator.remove_duplicates removes what
\* find_duplicates finds: of every duplicate group, a group of bookmarks with
\* identical url and title included, exactly one bookmark is kept and the
\* others are returned as removed, so the unique list is strictly shorter
\* than the input whenever a group was found.
C14_OneKeptPerGroup ==
    LET duplicate_groups == Intelligent_find_loop(dd.input, 1, {}, <<>>)
        RECURSIVE Surplus(_)
        Surplus(groups) ==
            IF groups = <<>> THEN 0
            ELSE (Len(groups[1]) - 1) + Surplus(Tail(groups))
    IN  (dd.pc = 1 /\ dd.which = "intelligent") =>
            /\ Len(dd.unique) = Len(dd.input) - Surplus(duplicate_groups)
            /\ Len(dd.duplicates) = Surplus(duplicate_groups)
            /\ duplicate_groups # <<>> => Len(dd.unique) < Len(dd.input)

(***************************************************************************)
(* The category tree, its HTML export and the bookmark loader.             *)
(*                                                                         *)
(* Characters outside ASCII are written by name: "nl" is the line feed,    *)
(* "green", "yellow", "orange", "red", "fire", "pin", "star" and           *)
(* "question" are the indicator emojis, "u6536" is the character U+6536.   *)
(* A confidence is a number of hundredths.  A category tree is the list of *)
(* its top-level nodes in insertion order, [name, items, subs], subs the   *)
(* list of [name, items].                                                  *)
(***************************************************************************)
DEFAULT_PREFIX_EMOJIS ==
    {"green", "yellow", "orange", "red", "fire", "pin", "star", "question"}

\* the whitespace of the modelled texts (str.strip(), \s)
Blank == {" ", "nl"}

\* emoji_cleaner.clean_title: the leading run of indicator emojis and the
\* blanks after them is cut (^(?:[emojis]\s*)+), then both ends are stripped
clean_title(title) ==
    LET Sub(text) == IF text # <<>> /\ text[1] \in DEFAULT_PREFIX_EMOJIS
                     THEN LStrip(text, DEFAULT_PREFIX_EMOJIS \cup Blank)
                     ELSE text
    IN  IF title = <<>> THEN <<>> ELSE LStrip(RStrip(Sub(title), Blank), Blank)

\* DataExporter._escape_html: five replacements, the ampersand first
Exporter_escape_html(text) ==
    Replace(Replace(Replace(Replace(Replace(text,
        <<"&">>, <<"&", "a", "m", "p", ";">>),
        <<"<">>, <<"&", "l", "t", ";">>),
        <<">">>, <<"&", "g", "t", ";">>),
        <<"dquote">>, <<"&", "q", "u", "o", "t", ";">>),
        <<"'">>, <<"&", "#", "x", "2", "7", ";">>)

\* DataExporter._get_confidence_indicator; show is the configuration's
\* show_confidence_indicator
Exporter_get_confidence_indicator(show, confidence) ==
    IF ~show THEN <<>>
    ELSE IF confidence >= 90 THEN <<"green">>
    ELSE IF confidence >= 70 THEN <<"yellow">>
    ELSE IF confidence >= 50 THEN <<"orange">>
    ELSE IF confidence > 0 THEN <<"red">>
    ELSE <<>>

\* DataExporter._format_bookmark_html: one <DT><A ...> line; the URL and
\* the title are escaped, add_date is written as it is
Exporter_format_bookmark_html(item, indent, show) ==
    LET Line(url, clean, confidence_indicator) ==
            indent \o <<"<", "D", "T", ">", "<", "A", " ", "H", "R", "E", "F", "=",
              "dquote">> \o url \o <<"dquote">>
            \o (IF item.add_date # <<>>
                THEN <<" ", "A", "D", "D", "_", "D", "A", "T", "E", "=",
                      "dquote">> \o item.add_date \o <<"dquote">>
                ELSE <<>>)
            \o <<">">>
            \o (IF confidence_indicator # <<>>
                THEN confidence_indicator \o <<" ">> \o clean
                ELSE clean)
            \o <<"<", "/", "A", ">">>
    IN  Line(Exporter_escape_html(item.url),
             clean_title(Exporter_escape_html(item.title)),
             Exporter_get_confidence_indicator(show, item.confidence))

\* DataExporter._generate_html_content: the lines of the file joined by
\* line feeds; stats is whether statistics are passed (the sample run of
\* two bookmarks, no classifier statistics)
Exporter_generate_html_content(organized_bookmarks, stats, show) ==
    LET Spaces(n) == [i \in 1..n |-> " "]
        Items(items, n) ==
            <<>> \o [i \in 1..Len(items) |->
                        Exporter_format_bookmark_html(items[i], Spaces(n), show)]
        Folder(name, n) ==
            << Spaces(n) \o <<"<", "D", "T", ">", "<", "H", "3", ">">> \o Exporter_escape_html(name)
                   \o <<"<", "/", "H", "3", ">">>,
               Spaces(n) \o <<"<", "D", "L", ">", "<", "p", ">">> >>
        Close(n) == << Spaces(n) \o <<"<", "/", "D", "L", ">", "<", "p", ">">> >>
        Subcategory(sub) ==
            Folder(sub.name, 12) \o Items(sub.items, 16) \o Close(12)
        Category(node) ==
            Folder(node.name, 8) \o Items(node.items, 12)
            \o Join(<<>> \o [k \in 1..Len(node.subs) |-> Subcategory(node.subs[k])],
                    <<>>)
            \o Close(8)
        Header ==
            << <<"<", "!", "D", "O", "C", "T", "Y", "P", "E", " ", "N", "E",
                 "T", "S", "C", "A", "P", "E", "-", "B", "o", "o", "k", "m",
                 "a", "r", "k", "-", "f", "i", "l", "e", "-", "1", ">">>,
               <<"<", "!", "-", "-", " ", "T", "h", "i", "s", " ", "i", "s",
                 " ", "a", "n", " ", "a", "u", "t", "o", "m", "a", "t", "i",
                 "c", "a", "l", "l", "y", " ", "g", "e", "n", "e", "r", "a",
                 "t", "e", "d", " ", "f", "i", "l", "e", ".">>,
               <<" ", " ", " ", " ", " ", "I", "t", " ", "w", "i", "l", "l",
                 " ", "b", "e", " ", "r", "e", "a", "d", " ", "a", "n", "d",
                 " ", "o", "v", "e", "r", "w", "r", "i", "t", "t", "e", "n",
                 ".">>,
               <<" ", " ", " ", " ", " ", "D", "O", " ", "N", "O", "T", " ",
                 "E", "D", "I", "T", "!", " ", "-", "-", ">">>,
               <<"<", "M", "E", "T", "A", " ", "H", "T", "T", "P", "-", "E",
                 "Q", "U", "I", "V", "=", "dquote", "C", "o", "n", "t", "e",
                 "n", "t", "-", "T", "y", "p", "e", "dquote", " ", "C", "O",
                 "N", "T", "E", "N", "T", "=", "dquote", "t", "e", "x", "t",
                 "/", "h", "t", "m", "l", ";", " ", "c", "h", "a", "r", "s",
                 "e", "t", "=", "U", "T", "F", "-", "8", "dquote", ">">>,
               <<"<", "T", "I", "T", "L", "E", ">", "B", "o", "o", "k", "m",
                 "a", "r", "k", "s", "<", "/", "T", "I", "T", "L", "E", ">">>,
               <<"<", "H", "1", ">", "B", "o", "o", "k", "m", "a", "r", "k",
                 "s", "<", "/", "H", "1", ">">> >>
        Statistics ==
            << <<"<", "!", "-", "-">>,
               <<" ", " ", " ", " ", "G", "e", "n", "e", "r", "a", "t", "o",
                 "r", ":", " ", "A", "I", "u667A", "u80FD", "u4E66", "u7B7E",
                 "u5206", "u7C7B", "u7CFB", "u7EDF", " ", "v", "2", ".", "0">>,
               <<" ", " ", " ", " ", "E", "x", "p", "o", "r", "t", " ", "T",
                 "i", "m", "e", ":", " ", "2", "0", "2", "6", "-", "0", "1",
                 "-", "0", "1", " ", "0", "0", ":", "0", "0", ":", "0", "0">>,
               <<" ", " ", " ", " ", "P", "r", "o", "c", "e", "s", "s", "e",
                 "d", " ", "B", "o", "o", "k", "m", "a", "r", "k", "s", ":",
                 " ", "2", " ", "/", " ", "2">>,
               <<"-", "-", ">">> >>
        Toolbar ==
            << <<"<", "D", "L", ">", "<", "p", ">">>,
               <<" ", " ", " ", " ", "<", "D", "T", ">", "<", "H", "3", " ",
                 "P", "E", "R", "S", "O", "N", "A", "L", "_", "T", "O", "O",
                 "L", "B", "A", "R", "_", "F", "O", "L", "D", "E", "R", "=",
                 "dquote", "t", "r", "u", "e", "dquote", ">", "u6536",
                 "u85CF", "u5939", "u680F", "<", "/", "H", "3", ">">>,
               <<" ", " ", " ", " ", "<", "D", "L", ">", "<", "p", ">">> >>
        Footer ==
            << <<" ", " ", " ", " ", "<", "/", "D", "L", ">", "<", "p", ">">>,
               <<"<", "/", "D", "L", ">", "<", "p", ">">>,
               <<"<", "/", "H", "T", "M", "L", ">">> >>
        Folders(tree) ==
            Join(<<>> \o [k \in 1..Len(tree) |-> Category(tree[k])], <<>>)
    IN  Join(Header \o (IF stats THEN Statistics ELSE <<>>) \o Toolbar
             \o Folders(organized_bookmarks) \o Footer,
             <<"nl">>)

\* the character references the HTML parser replaces in texts and in
\* attribute values, in one pass from the left
RECURSIVE html_unescape(_)
html_unescape(s) ==
    LET Ref(name, c) == IF StartsWith(s, name)
                        THEN <<c>> \o html_unescape(From(s, Len(name) + 1))
                        ELSE <<>>
        First(refs) == IF \A r \in refs : r = <<>> THEN <<s[1]>> \o html_unescape(Tail(s))
                       ELSE CHOOSE r \in refs : r # <<>>
    IN  IF s = <<>> THEN <<>>
        ELSE IF s[1] # "&" THEN <<s[1]>> \o html_unescape(Tail(s))
        ELSE First({Ref(<<"&", "a", "m", "p", ";">>, "&"),
                    Ref(<<"&", "l", "t", ";">>, "<"),
                    Ref(<<"&", "g", "t", ";">>, ">"),
                    Ref(<<"&", "q", "u", "o", "t", ";">>, "dquote"),
                    Ref(<<"&", "#", "x", "2", "7", ";">>, "'")})

\* the first position at or after from of a character of cs, Len(s) + 1
\* when there is none
FindAny(s, cs, from) ==
    LET I == {i \in from..Len(s) : s[i] \in cs}
    IN  IF I = {} THEN Len(s) + 1 ELSE SetMin(I)

\* the parser on a start tag, from position q after the tag's name: the
\* attributes (name in lower case, value without its quotes, references
\* replaced) and the position of the closing ">"; a quoted value may hold
\* any character but its quote
RECURSIVE html_attributes(_, _, _)
html_attributes(doc, q, attrs) ==
    LET Value(name, from, to, next) ==
            html_attributes(doc, next,
                Append(attrs, [name |-> name, value |-> html_unescape(SubSeq(doc, from, to))]))
        Quoted(name, open, close) ==
            IF close = 0 THEN Value(name, open + 1, Len(doc), Len(doc) + 1)
            ELSE Value(name, open + 1, close - 1, close + 1)
        Unquoted(name, from, to) == Value(name, from, to - 1, to)
        Attribute(name_end) ==
            IF name_end <= Len(doc) /\ doc[name_end] = "="
            THEN IF name_end < Len(doc) /\ doc[name_end + 1] \in {"dquote", "'"}
                 THEN Quoted(Lower(SubSeq(doc, q, name_end - 1)), name_end + 1,
                             Find(doc, doc[name_end + 1], name_end + 2))
                 ELSE Unquoted(Lower(SubSeq(doc, q, name_end - 1)), name_end + 1,
                               FindAny(doc, Blank \cup {">"}, name_end + 1))
            ELSE Value(Lower(SubSeq(doc, q, name_end - 1)), 1, 0, name_end)
    IN  IF q > Len(doc) THEN [end |-> Len(doc), attrs |-> attrs]
        ELSE IF doc[q] = ">" THEN [end |-> q, attrs |-> attrs]
        ELSE IF doc[q] \in Blank \cup {"/", "="} THEN html_attributes(doc, q + 1, attrs)
        ELSE Attribute(FindAny(doc, Blank \cup {"=", ">", "/"}, q))

\* soup.find_all('a', href=True), one turn of the parser's loop: from
\* position st.p the text up to the next "<" and the tag that starts there.
\* st.open is the anchor being read (none, or one with its text so far),
\* st.acc the anchors closed before.  Comments and declarations are skipped,
\* a "<" that starts no tag is text, an anchor ends at </a>, at the next <a>
\* or at the end of the document.
html_step(doc, st) ==
    LET WithText(text) ==
            IF st.open = <<>> THEN <<>> ELSE <<[st.open[1] EXCEPT !.text = @ \o text]>>
        Get(attrs, name) ==
            IF \E k \in 1..Len(attrs) : attrs[k].name = name
            THEN attrs[CHOOSE k \in 1..Len(attrs) :
                         attrs[k].name = name /\ \A j \in 1..(k - 1) : attrs[j].name # name].value
            ELSE <<>>
        Anchor(attrs) ==
            IF \E k \in 1..Len(attrs) : attrs[k].name = <<"h", "r", "e", "f">>
            THEN <<[href     |-> Get(attrs, <<"h", "r", "e", "f">>),
                    add_date |-> Get(attrs, <<"a", "d", "d", "_", "d", "a", "t", "e">>),
                    text     |-> <<>>]>>
            ELSE <<>>
        Goes(p, open, acc) == [p |-> p, open |-> open, acc |-> acc, done |-> FALSE]
        Ends(lt) == [p |-> Len(doc) + 1, open |-> <<>>, done |-> TRUE,
                     acc |-> st.acc \o WithText(SubSeq(doc, st.p, lt - 1))]
        StartTag(name, tag, before) ==
            IF name = <<"a">>
            THEN Goes(tag.end + 1, Anchor(tag.attrs), st.acc \o before)
            ELSE Goes(tag.end + 1, before, st.acc)
        Start(lt, name_end) ==
            StartTag(Lower(SubSeq(doc, lt + 1, name_end - 1)),
                     html_attributes(doc, name_end, <<>>),
                     WithText(SubSeq(doc, st.p, lt - 1)))
        EndTag(lt, gt) ==
            IF gt = 0 THEN Ends(lt)
            ELSE IF Lower(Strip(SubSeq(doc, lt + 2, gt - 1))) = <<"a">>
            THEN Goes(gt + 1, <<>>, st.acc \o WithText(SubSeq(doc, st.p, lt - 1)))
            ELSE Goes(gt + 1, WithText(SubSeq(doc, st.p, lt - 1)), st.acc)
        Skip(lt, end) ==
            IF end = 0 THEN Ends(lt)
            ELSE Goes(end + 1, WithText(SubSeq(doc, st.p, lt - 1)), st.acc)
        CommentEnd(lt) ==
            LET I == {i \in (lt + 4)..(Len(doc) - 2) :
                         SubSeq(doc, i, i + 2) = <<"-", "-", ">">>}
            IN  IF I = {} THEN 0 ELSE SetMin(I) + 2
        At(lt) ==
            IF lt = 0 THEN Ends(Len(doc) + 1)
            ELSE IF StartsWith(From(doc, lt), <<"<", "!", "-", "-">>) THEN Skip(lt, CommentEnd(lt))
            ELSE IF lt < Len(doc) /\ doc[lt + 1] \in {"!", "?"} THEN Skip(lt, Find(doc, ">", lt))
            ELSE IF lt < Len(doc) /\ doc[lt + 1] = "/" THEN EndTag(lt, Find(doc, ">", lt))
            ELSE IF lt < Len(doc) /\ doc[lt + 1] \in DOMAIN CodePoint /\ IsAlpha(doc[lt + 1])
            THEN Start(lt, FindAny(doc, Blank \cup {">", "/"}, lt + 1))
            ELSE Goes(lt + 1, WithText(SubSeq(doc, st.p, lt)), st.acc)
    IN  At(Find(doc, "<", st.p))

\* the parser's loop: 2^k turns from st, none after the end of the document
RECURSIVE html_steps(_, _, _)
html_steps(doc, st, k) ==
    IF st.done THEN st
    ELSE IF k = 0 THEN html_step(doc, st)
    ELSE html_steps(doc, html_steps(doc, st, k - 1), k - 1)

\* BookmarkProcessor._is_valid_url
Processor_is_valid_url(url) ==
    /\ url # <<>>
    /\ \A prefix \in {<<"j", "a", "v", "a", "s", "c", "r", "i", "p", "t",
                           ":">>,
                      <<"d", "a", "t", "a", ":">>, <<"c", "h", "r", "o", "m", "e", ":">>,
                      <<"a", "b", "o", "u", "t", ":">>, <<"f", "i", "l", "e", ":">>,
                      <<"m", "a", "i", "l", "t", "o", ":">>} :
           ~StartsWith(Lower(url), prefix)
    /\ \/ StartsWith(url, <<"h", "t", "t", "p", ":", "/", "/">>)
       \/ StartsWith(url, <<"h", "t", "t", "p", "s", ":", "/", "/">>)

\* BookmarkProcessor._load_bookmarks_from_file on the text of a file: the
\* anchors with an href, URL stripped, title stripped and cleaned, kept when
\* both are non-empty and the URL is valid (source_file and last_modified
\* are not modelled)
Processor_load_bookmarks_from_file(content) ==
    LET Bookmark(link) == [url      |-> LStrip(RStrip(link.href, Blank), Blank),
                           title    |-> clean_title(LStrip(RStrip(html_unescape(link.text), Blank), Blank)),
                           add_date |-> link.add_date]
        Kept(bookmarks) ==
            AtIndices(bookmarks,
                      {k \in 1..Len(bookmarks) :
                          /\ bookmarks[k].url # <<>>
                          /\ bookmarks[k].title # <<>>
                          /\ Processor_is_valid_url(bookmarks[k].url)})
        Loaded(links) == Kept(<<>> \o [k \in 1..Len(links) |-> Bookmark(links[k])])
        \* a turn reads at least one character: 2^k turns, 2^k > Len(content), end the loop
        Turns == CHOOSE k \in 0..Len(content) : 2^k > Len(content)
    IN  Loaded(html_steps(content, [p |-> 1, open |-> <<>>, acc |-> <<>>, done |-> FALSE],
                          Turns).acc)

\* TaxonomyStandardizer with a sample vocabulary (the taxonomy files are
\* configuration): the preferred subject and the resource type of a
\* lower-case variant
subjects_map ==
    [v \in {<<"d", "e", "v">>} |-> <<"T", "e", "c", "h">>]

resource_types_map ==
    [v \in {<<"d", "o", "c">>} |->
        <<"d", "o", "c", "u", "m", "e", "n", "t", "a", "t", "i", "o", "n">>]

\* the subject and the resource type BookmarkProcessor._organize_bookmarks
\* derives for a classified bookmark, <<>> for None, with
\* TaxonomyStandardizer._strip_prefix, normalize_subject,
\* normalize_resource_type and derive_from_category
Processor_subject_and_type(bookmark) ==
    LET Or(a, b) == IF a # <<>> THEN a ELSE b
        StripPrefix(s) ==
            IF \E i \in 1..Len(s) : s[i] \in AlNum
            THEN From(s, SetMin({i \in 1..Len(s) : s[i] \in AlNum}))
            ELSE s
        Lookup(map, low, default) == IF low \in DOMAIN map THEN map[low] ELSE default
        normalize_subject(text) ==
            IF text = <<>> THEN <<>>
            ELSE Lookup(subjects_map, Lower(StripPrefix(Strip(text))), StripPrefix(Strip(text)))
        normalize_resource_type(text) ==
            IF text = <<>> THEN <<>>
            ELSE Lookup(resource_types_map, Lower(StripPrefix(Strip(text))), <<>>)
        Slash(cat) == Find(cat, "/", 1)
        derived_subject(cat) ==
            IF cat = <<>> THEN <<>>
            ELSE IF Slash(cat) = 0 THEN normalize_subject(cat)
            ELSE normalize_subject(Strip(SubSeq(cat, 1, Slash(cat) - 1)))
        derived_rt(cat) ==
            IF cat = <<>> \/ Slash(cat) = 0 THEN <<>>
            ELSE normalize_resource_type(Strip(From(cat, Slash(cat) + 1)))
        Placed(category, subcategory) ==
            [subject       |-> Or(derived_subject(category),
                                  Or(normalize_subject(category), <<"u5176", "u4ED6">>)),
             resource_type |-> Or(normalize_resource_type(bookmark.resource_type_hint),
                                  Or(normalize_resource_type(subcategory),
                                     derived_rt(category)))]
    IN  Placed(Strip(bookmark.category), Strip(bookmark.subcategory))

\* list.sort(key=confidence, reverse=True): descending and stable
Processor_sort_items(items) ==
    LET Rank(i) == Cardinality({j \in 1..Len(items) : items[j].confidence > items[i].confidence})
                   + Cardinality({j \in 1..(i - 1) : items[j].confidence = items[i].confidence})
    IN  <<>> \o [p \in 1..Len(items) |-> items[CHOOSE i \in 1..Len(items) : Rank(i) = p - 1]]

\* BookmarkProcessor._sort_organized_structure
Processor_sort_organized_structure(organized) ==
    <<>> \o [k \in 1..Len(organized) |->
        [name  |-> organized[k].name,
         items |-> Processor_sort_items(organized[k].items),
         subs  |-> <<>> \o [m \in 1..Len(organized[k].subs) |->
                      [name  |-> organized[k].subs[m].name,
                       items |-> Processor_sort_items(organized[k].subs[m].items)]]]]

\* BookmarkProcessor._organize_bookmarks: every bookmark is appended to the
\* node of its subject, or to the node of its resource type below it
Processor_organize_bookmarks(classified_bookmarks) ==
    LET Index(nodes, name) ==
            IF \E k \in 1..Len(nodes) : nodes[k].name = name
            THEN CHOOSE k \in 1..Len(nodes) : nodes[k].name = name
            ELSE Len(nodes) + 1
        WithNode(nodes, node) ==
            IF \E k \in 1..Len(nodes) : nodes[k].name = node.name THEN nodes
            ELSE Append(nodes, node)
        Put(node, resource_type, bookmark) ==
            IF resource_type # <<>>
            THEN LET subs == WithNode(node.subs, [name |-> resource_type, items |-> <<>>])
                 IN  [node EXCEPT !.subs =
                         [subs EXCEPT ![Index(subs, resource_type)].items = Append(@, bookmark)]]
            ELSE [node EXCEPT !.items = Append(@, bookmark)]
        Add(organized, place, bookmark) ==
            [organized EXCEPT ![Index(organized, place.subject)] =
                Put(@, place.resource_type, bookmark)]
        RECURSIVE Loop(_, _)
        Loop(k, organized) ==
            IF k > Len(classified_bookmarks) THEN organized
            ELSE Loop(k + 1,
                      Add(WithNode(organized,
                                   [name  |-> Processor_subject_and_type(classified_bookmarks[k]).subject,
                                    items |-> <<>>, subs |-> <<>>]),
                          Processor_subject_and_type(classified_bookmarks[k]),
                          classified_bookmarks[k]))
    IN  Processor_sort_organized_structure(Loop(1, <<>>))

(***************************************************************************)
(* SpecExport: a category tree is exported to HTML and the written file is *)
(* loaded again.                                                           *)
(***************************************************************************)
MaxTreeItems == 2

\* classified bookmarks: a URL and a title with characters that are
\* escaped, a title with quotes, an add_date that holds a quote and a ">",
\* a title that starts with an indicator emoji, a URL that is not http(s)
ClassifiedPool ==
    {
       [url |-> <<"h", "t", "t", "p", ":", "/", "/", "a", ".", "c", "o", "/",
                 "?", "x", "=", "1", "&", "y", "=", "2">>,
        title |-> <<"Q", "&", "A", " ", "<", "b", ">">>,
        add_date |-> <<"1">>, confidence |-> 95,
        category |-> <<"D", "e", "v", "/", "d", "o", "c">>,
        subcategory |-> <<>>, resource_type_hint |-> <<>>],
       [url |-> <<"h", "t", "t", "p", "s", ":", "/", "/", "b", ".", "c", "o",
                 "/">>,
        title |-> <<"i", "t", "'", "s", " ", "dquote", "x", "dquote">>,
        add_date |-> <<>>, confidence |-> 0,
        category |-> <<"d", "e", "v">>,
        subcategory |-> <<"D", "o", "c">>, resource_type_hint |-> <<>>],
       [url |-> <<"h", "t", "t", "p", ":", "/", "/", "c", ".", "c", "o", "/">>,
        title |-> <<"t">>,
        add_date |-> <<"dquote", ">">>, confidence |-> 60,
        category |-> <<"A", "i">>,
        subcategory |-> <<>>, resource_type_hint |-> <<>>],
       [url |-> <<"h", "t", "t", "p", ":", "/", "/", "d", ".", "c", "o", "/">>,
        title |-> <<"fire", " ", "h", "o", "t">>,
        add_date |-> <<>>, confidence |-> 75,
        category |-> <<"A", "i">>,
        subcategory |-> <<>>, resource_type_hint |-> <<"d", "o", "c">>],
       [url |-> <<"f", "t", "p", ":", "/", "/", "e", ".", "c", "o", "/">>,
        title |-> <<"f">>,
        add_date |-> <<>>, confidence |-> 30,
        category |-> <<>>,
        subcategory |-> <<>>, resource_type_hint |-> <<>>] }

\* the lists of up to MaxTreeItems classified bookmarks
ClassifiedLists == UNION {[1..n -> ClassifiedPool] : n \in 0..MaxTreeItems}

InitExport ==
    /\ ex \in [organized : {Processor_organize_bookmarks(l) : l \in ClassifiedLists},
               show      : BOOLEAN,
               stats     : BOOLEAN,
               html      : {<<>>},
               loaded    : {<<>>},
               pc        : {0}]
    /\ OthersIdle("ex")

\* DataExporter.export_html(organized_bookmarks, output_file, stats)
ExportHtml ==
    /\ ex.pc = 0
    /\ ex' = [ex EXCEPT !.html = Exporter_generate_html_content(ex.organized, ex.stats, ex.show),
                        !.pc = 1]
    /\ OthersUnchanged("ex")

\* BookmarkProcessor._load_bookmarks_from_file(output_file)
LoadExported ==
    /\ ex.pc = 1
    /\ ex' = [ex EXCEPT !.loaded = Processor_load_bookmarks_from_file(ex.html), !.pc = 2]
    /\ OthersUnchanged("ex")

NextExport == ExportHtml \/ LoadExported

SpecExport == InitExport /\ [][NextExport]_vars

\* C4: exported HTML re-parses to the same set of (url, title) pairs as the
\* organized tree: loading the file the HTML exporter wrote with the
\* bookmark loader gives exactly the (url, title) pairs of the bookmarks
\* held in the tree.
C4_ExportReloads ==
    LET Pairs(items) == {<<items[k].url, items[k].title>> : k \in 1..Len(items)}
        Held(node) == Pairs(node.items) \cup UNION {Pairs(node.subs[m].items) : m \in 1..Len(node.subs)}
        InTree(tree) == UNION {Held(tree[k]) : k \in 1..Len(tree)}
    IN  ex.pc = 2 => Pairs(ex.loaded) = InTree(ex.organized)

(***************************************************************************)
(* Classification: RuleEngine, the ensemble of AIBookmarkClassifier and    *)
(* EnhancedClassifier.  A weight, a score and a confidence are the exact   *)
(* fraction <<n, d>>, d > 0, of the float the code computes.  A dict is    *)
(* the sequence of its <<key, value>> pairs in insertion order.  The       *)
(* machine-learning and the LLM classifier are disabled.                   *)
(***************************************************************************)
\* the float n / d
Frac(n, d) ==
    LET RECURSIVE GCD(_, _)
        GCD(m, k) == IF k = 0 THEN m ELSE GCD(k, m % k)
        Abs(x) == IF x < 0 THEN -x ELSE x
        Reduced(g) == IF d < 0 THEN <<(-n) \div g, (-d) \div g>> ELSE <<n \div g, d \div g>>
    IN  Reduced(GCD(Abs(n), Abs(d)))

FAdd(f, g) == Frac(f[1] * g[2] + g[1] * f[2], f[2] * g[2])

FMul(f, g) == Frac(f[1] * g[1], f[2] * g[2])

\* f / g for g # 0
FDiv(f, g) == Frac(f[1] * g[2], f[2] * g[1])

FLess(f, g) == f[1] * g[2] < g[1] * f[2]

\* d[key] += value for a defaultdict(float)
DictAdd(d, key, value) ==
    IF \E k \in 1..Len(d) : d[k][1] = key
    THEN <<>> \o [k \in 1..Len(d) |->
                    IF d[k][1] = key THEN <<key, FAdd(d[k][2], value)>> ELSE d[k]]
    ELSE Append(d, <<key, value>>)

\* d[key] += value for every <<key, value>> of pairs, in order
RECURSIVE DictAddAll(_, _)
DictAddAll(d, pairs) ==
    IF pairs = <<>> THEN d
    ELSE DictAddAll(DictAdd(d, pairs[1][1], pairs[1][2]), Tail(pairs))

\* sum(d.values())
RECURSIVE DictTotal(_)
DictTotal(d) == IF d = <<>> THEN <<0, 1>> ELSE FAdd(d[1][2], DictTotal(Tail(d)))

\* max(d, key=d.get) with its value: the first key of the largest value
MaxKey(d) ==
    d[SetMin({i \in 1..Len(d) : \A j \in 1..Len(d) : ~FLess(d[i][2], d[j][2])})]

\* sub in s
Contains(s, sub) ==
    \E i \in 0..(Len(s) - Len(sub)) : SubSeq(s, i + 1, i + Len(sub)) = sub

\* extract_features(url, title) of both classifiers: the fields the rules
\* read.  content_type is what _detect_content_type returns for the
\* bookmark, given with the bookmark.
extract_features(bookmark) ==
    [url          |-> bookmark.url,
     title        |-> bookmark.title,
     domain       |-> Replace(Lower(urlparse(bookmark.url).netloc), <<"w", "w", "w", ".">>, <<>>),
     content_type |-> bookmark.content_type,
     is_secure    |-> StartsWith(bookmark.url, <<"h", "t", "t", "p", "s", ":", "/", "/">>)]

\* the text a rule of type match_type is matched against (the rules of the
\* model match on the domain, the title or the URL)
match_text(match_type, features) ==
    CASE match_type = "domain" -> features.domain
      [] match_type = "title" -> Lower(features.title)
      [] match_type = "url" -> Lower(features.url)
      [] OTHER -> <<>>

\* RuleEngine._compile_rules: the rules of every category with rules, over
\* priority_rules and then category_rules; the weight of a rule is its own
\* weight times the weight of its category, each 1.0 when absent.  A
\* keyword without * and ? compiles to a case-insensitive search for it.
Rule_compile_rules(config) ==
    LET Weight(w) == IF w = <<>> THEN <<1, 1>> ELSE w[1]
        Compiled(e) ==
            [k \in 1..Len(e.rules) |->
                [category   |-> e.category,
                 match_type |-> e.rules[k].match,
                 patterns   |-> e.rules[k].keywords,
                 exclusions |-> e.rules[k].must_not_contain,
                 weight     |-> FMul(Weight(e.rules[k].weight), Weight(e.weight))]]
        OfCategory(sections, c) ==
            Join(<<>> \o [k \in 1..Len(sections) |->
                    IF sections[k].category = c THEN <<>> \o Compiled(sections[k]) ELSE <<>>], <<>>)
        First(sections, k) == \A j \in 1..(k - 1) : sections[j].category # sections[k].category
        Grouped(sections) ==
            Join(<<>> \o [k \in 1..Len(sections) |->
                    IF First(sections, k) THEN OfCategory(sections, sections[k].category)
                    ELSE <<>>], <<>>)
        HasRules(e) == e.rules # <<>>
    IN  Grouped(SelectSeq(config.priority_rules \o config.category_rules, HasRules))

\* RuleEngine._find_matches: the rules with a pattern found in their text
\* and no exclusion found in it
Rule_find_matches(compiled_rules, features) ==
    LET Found(text, pattern) == Contains(Lower(text), Lower(pattern))
        Hit(rule, target_text) ==
            /\ target_text # <<>>
            /\ \E k \in 1..Len(rule.patterns) : Found(target_text, rule.patterns[k])
            /\ \A k \in 1..Len(rule.exclusions) : ~Found(target_text, rule.exclusions[k])
        Matches(rule) == Hit(rule, match_text(rule.match_type, features))
    IN  SelectSeq(compiled_rules, Matches)

\* RuleEngine.classify: None (the empty sequence) without a match, else the
\* category of the largest summed weight; its confidence is divided by the
\* total only when the total is positive
Rule_classify(config, features) ==
    LET Result(best, total_score) ==
            [method     |-> "rule_engine",
             category   |-> best[1],
             confidence |-> IF FLess(<<0, 1>>, total_score) THEN FDiv(best[2], total_score)
                            ELSE best[2]]
        Scored(category_scores) ==
            <<Result(MaxKey(category_scores), DictTotal(category_scores))>>
        Classified(matches) ==
            IF matches = <<>> THEN <<>>
            ELSE Scored(DictAddAll(<<>>, <<>> \o [k \in 1..Len(matches) |->
                                            <<matches[k].category, matches[k].weight>>]))
    IN  Classified(Rule_find_matches(Rule_compile_rules(config), features))

\* AIBookmarkClassifier._ensemble_classification: the weighted vote of the
\* results.  raised is the ZeroDivisionError of the alternatives when the
\* total is zero and a second category was voted for.
AI_ensemble_classification(results) ==
    LET method_weights(method) ==
            CASE method = "rule_engine" -> <<35, 100>>
              [] method = "machine_learning" -> <<25, 100>>
              [] method = "semantic_analyzer" -> <<15, 100>>
              [] method = "user_profiler" -> <<10, 100>>
              [] method = "llm" -> <<50, 100>>
              [] OTHER -> <<10, 100>>
        Result(best, total_score, categories) ==
            [raised     |-> total_score[1] = 0 /\ categories > 1,
             category   |-> best[1],
             confidence |-> IF FLess(<<0, 1>>, total_score) THEN FDiv(best[2], total_score)
                            ELSE best[2],
             method     |-> {results[k].method : k \in 1..Len(results)}]
        Voted(category_scores) ==
            Result(MaxKey(category_scores), DictTotal(category_scores), Len(category_scores))
    IN  IF results = <<>>
        THEN [raised |-> FALSE, category |-> <<"u672A", "u5206", "u7C7B">>,
              confidence |-> <<0, 1>>, method |-> {"fallback"}]
        ELSE Voted(DictAddAll(<<>>, <<>> \o [k \in 1..Len(results) |->
                        <<results[k].category,
                          FMul(results[k].confidence, method_weights(results[k].method))>>]))

\* AIBookmarkClassifier.classify: the ensemble of the results of the rule
\* engine, the semantic analyzer, the user profiler and the LLM classifier
\* that are not None; an exception of the LLM classifier is raised on
AI_classify(config, features, semantic_result, user_result, llm_result) ==
    LET Raised(r) == [r EXCEPT !.raised = TRUE]
        Ensemble(r) == IF llm_result.raised THEN Raised(r) ELSE r
    IN  Ensemble(AI_ensemble_classification(
            Rule_classify(config, features) \o semantic_result \o user_result
                \o llm_result.result))

\* EnhancedClassifier._calculate_match_score of a lower-case keyword
Enhanced_calculate_match_score(keyword, target_text) ==
    LET Word(i) == i >= 1 /\ i <= Len(target_text) /\ target_text[i] \in AlNum \cup {"_"}
        Boundary(i) == Word(i - 1) # Word(i)
        At(i) == SubSeq(target_text, i, i + Len(keyword) - 1) = keyword
        Chars(s) == {s[i] : i \in 1..Len(s)}
        Similar(set1, set2) ==
            <<Cardinality(set1 \cap set2), Cardinality(set1 \cup set2)>>
        Fuzzy(similarity) ==
            IF FLess(<<4, 5>>, similarity) THEN FMul(similarity, <<3, 5>>) ELSE <<0, 1>>
    IN  IF Contains(target_text, keyword)
        THEN IF target_text = keyword THEN <<1, 1>>
             ELSE IF \E i \in 1..(Len(target_text) - Len(keyword) + 1) :
                        At(i) /\ Boundary(i) /\ Boundary(i + Len(keyword))
                  THEN <<9, 10>>
             ELSE <<7, 10>>
        ELSE IF Len(keyword) > 3 THEN Fuzzy(Similar(Chars(keyword), Chars(target_text)))
        ELSE <<0, 1>>

\* EnhancedClassifier._evaluate_enhanced_rule
Enhanced_evaluate_enhanced_rule(rule, features, base_weight) ==
    LET weight == IF rule.weight = <<>> THEN base_weight ELSE rule.weight[1]
        Largest(S) == CHOOSE f \in S : \A g \in S : ~FLess(f, g)
        MaxScore(target_text) ==
            Largest({<<0, 1>>} \cup
                    {Enhanced_calculate_match_score(Lower(rule.keywords[k]), target_text) :
                        k \in 1..Len(rule.keywords)})
        Excluded(target_text) ==
            \E k \in 1..Len(rule.must_not_contain) :
                Contains(target_text, Lower(rule.must_not_contain[k]))
        Secure(enhanced_score) ==
            IF features.is_secure THEN FMul(enhanced_score, <<105, 100>>) ELSE enhanced_score
        Typed(enhanced_score) ==
            Secure(IF features.content_type # "unknown" THEN FMul(enhanced_score, <<11, 10>>)
                   ELSE enhanced_score)
        Score(target_text, max_score) ==
            Typed(FMul(IF Excluded(target_text) THEN FMul(max_score, <<1, 10>>) ELSE max_score,
                       weight))
        Evaluated(target_text) ==
            IF target_text = <<>> THEN <<0, 1>> ELSE Score(target_text, MaxScore(target_text))
    IN  IF rule.keywords = <<>> THEN <<0, 1>>
        ELSE Evaluated(match_text(rule.match, features))

\* EnhancedClassifier._apply_priority_rules (priority) and
\* _apply_category_rules: the positive scores of the rules, by category
Enhanced_apply_rules(sections, features, priority) ==
    LET base_weight(e) ==
            IF ~priority THEN <<5, 1>>
            ELSE IF e.weight = <<>> THEN <<100, 1>> ELSE e.weight[1]
        Positive(p) == FLess(<<0, 1>>, p[2])
        OfCategory(e) ==
            SelectSeq(<<>> \o [k \in 1..Len(e.rules) |->
                        <<e.category,
                          Enhanced_evaluate_enhanced_rule(e.rules[k], features, base_weight(e))>>],
                      Positive)
    IN  DictAddAll(<<>>, Join(<<>> \o [i \in 1..Len(sections) |-> OfCategory(sections[i])], <<>>))

\* EnhancedClassifier._apply_context_rules; context is whether a context
\* that is not empty was passed
Enhanced_apply_context_rules(features, context, current_hour) ==
    LET working ==
            IF /\ 9 <= current_hour
               /\ current_hour <= 17
               /\ \/ Contains(features.domain, <<"g", "i", "t", "h", "u", "b", ".", "c",
                                     "o", "m">>)
                  \/ Contains(features.domain, <<"s", "t", "a", "c", "k", "o", "v", "e",
                                     "r", "f", "l", "o", "w", ".", "c", "o",
                                     "m">>)
            THEN << <<<<"u6280", "u672F", "u6808">>, <<2, 1>> >> >>
            ELSE <<>>
        content_boost ==
            CASE features.content_type = "github_code" ->
                    << <<<<"u6280", "u672F", "u6808">>, <<3, 1>> >> >>
              [] features.content_type = "video" ->
                    << <<<<"u5A31", "u4E50">>, <<2, 1>> >>, <<<<"u5B66", "u4E60">>, <<3, 2>> >> >>
              [] features.content_type = "documentation" ->
                    << <<<<"u6280", "u672F", "u8D44", "u6599">>, <<5, 2>> >> >>
              [] features.content_type = "tutorial" ->
                    << <<<<"u5B66", "u4E60">>, <<2, 1>> >>, <<<<"u6280", "u672F", "u8D44", "u6599">>, <<3, 2>> >> >>
              [] OTHER -> <<>>
    IN  IF ~context THEN <<>> ELSE DictAddAll(<<>>, working \o content_boost)

\* EnhancedClassifier._apply_learning_weights: the learned weight of the
\* domain for every category the domain was learned into
Enhanced_apply_learning_weights(features, learning) ==
    LET Learned(p) == p[1] = features.domain
        Into(p) == features.domain \in p[2]
        Scores(weights, patterns) ==
            IF weights = <<>> THEN <<>>
            ELSE <<>> \o [k \in 1..Len(patterns) |-> <<patterns[k][1], weights[1][2]>>]
    IN  Scores(SelectSeq(learning.learning_weights, Learned),
               SelectSeq(learning.category_patterns, Into))

\* EnhancedClassifier._apply_temporal_patterns: 1.0 for every category with
\* more than five feedbacks in the 24 hours before current_time; times are
\* in hours
Enhanced_apply_temporal_patterns(learning, current_time) ==
    LET recent_count(timestamps) ==
            Cardinality({k \in 1..Len(timestamps) : current_time - timestamps[k] < 24})
        Active(p) == recent_count(p[2]) > 5
        Scores(active) == <<>> \o [k \in 1..Len(active) |-> <<active[k][1], <<1, 1>> >>]
    IN  Scores(SelectSeq(learning.temporal_patterns, Active))

\* EnhancedClassifier.classify at the time current_time (in hours; the hour
\* of the day is current_time % 24)
Enhanced_classify(config, features, context, current_time, learning) ==
    LET uncategorized == [category |-> <<"u672A", "u5206", "u7C7B">>, confidence |-> <<0, 1>>]
        Boosted(confidence) ==
            IF ~FLess(<<7, 10>>, confidence) THEN confidence
            ELSE IF FLess(<<1, 1>>, FMul(confidence, config.confidence_boost_factor))
                 THEN <<1, 1>>
            ELSE FMul(confidence, config.confidence_boost_factor)
        Best(best) == [category |-> best[1], confidence |-> Boosted(best[2])]
        Normalized(scores, total_score) ==
            Best(MaxKey(<<>> \o [k \in 1..Len(scores) |->
                                  <<scores[k][1], FDiv(scores[k][2], total_score)>>]))
        Result(scores, total_score) ==
            IF scores = <<>> \/ total_score[1] = 0 THEN uncategorized
            ELSE Normalized(scores, total_score)
        Summed(scores) == Result(scores, DictTotal(scores))
    IN  Summed(DictAddAll(<<>>,
                Enhanced_apply_rules(config.priority_rules, features, TRUE)
                \o Enhanced_apply_rules(config.category_rules, features, FALSE)
                \o Enhanced_apply_context_rules(features, context, current_time % 24)
                \o Enhanced_apply_learning_weights(features, learning)
                \o Enhanced_apply_temporal_patterns(learning, current_time)))

\* a rule {"match": match, "keywords": [keyword], "weight": weight}, the
\* weight absent when weight is <<>>
Rule(match, keyword, weight) ==
    [match |-> match, keywords |-> <<keyword>>, weight |-> weight, must_not_contain |-> <<>>]

\* the configurations: category A matches the title "foo", category B the
\* title "bar", category QA the domain "stackoverflow", the priority
\* category P the domain "github.com"
Configs ==
    {[priority_rules |-> p,
      category_rules |->
        << [category |-> <<"A">>, weight |-> cw, rules |-> <<Rule("title", <<"f", "o", "o">>, <<wa>>)>>],
           [category |-> <<"B">>, weight |-> <<>>,
            rules |-> <<[Rule("title", <<"b", "a", "r">>, <<wb>>) EXCEPT
                            !.must_not_contain = <<<<"b", "a", "z">>>>]>>],
           [category |-> <<"Q", "A">>, weight |-> <<>>,
            rules |-> <<Rule("domain", <<"s", "t", "a", "c", "k", "o", "v", "e",
                                     "r", "f", "l", "o", "w">>, << <<1, 1>> >>)>>] >>,
      confidence_boost_factor |-> <<6, 5>>] :
        p \in {<<>>, <<[category |-> <<"P">>, weight |-> <<>>,
                        rules |-> <<Rule("domain", <<"g", "i", "t", "h", "u", "b", ".",
                                          "c", "o", "m">>, <<>>)>>]>>},
        cw \in {<<>>, << <<-1, 1>> >>},
        wa \in {<<0, 1>>, <<1, 1>>, <<3, 1>>},
        wb \in {<<-1, 1>>, <<1, 1>>}}

\* bookmarks with the content type EnhancedClassifier detects for them
ClassifyPool ==
    {[url |-> <<"h", "t", "t", "p", "s", ":", "/", "/", "s", "t", "a", "c",
              "k", "o", "v", "e", "r", "f", "l", "o", "w", ".", "c", "o",
              "m", "/", "q", "/", "1">>,
      title |-> <<"H", "o", "w", " ", "t", "o", " ", "x">>, content_type |-> "webpage"],
     [url |-> <<"h", "t", "t", "p", ":", "/", "/", "w", "w", "w", ".", "x",
              ".", "c", "o", "/", "f", "o", "o">>,
      title |-> <<"F", "o", "o", " ", "b", "a", "r">>, content_type |-> "webpage"],
     [url |-> <<"h", "t", "t", "p", "s", ":", "/", "/", "g", "i", "t", "h",
              "u", "b", ".", "c", "o", "m", "/", "a", "/", "b">>,
      title |-> <<"f", "o", "o">>, content_type |-> "github_code"],
     [url |-> <<"h", "t", "t", "p", ":", "/", "/", "x", ".", "c", "o", "/",
              "v", ".", "m", "p", "4">>,
      title |-> <<"F", "o", "o", "d", " ", "b", "a", "r", " ", "b", "a", "z">>, content_type |-> "video"]}

\* the learning data loaded at start: none, or the domain x.co learned into
\* category B with six feedbacks at hour 0
LearningStates ==
    {[learning_weights |-> <<>>, category_patterns |-> <<>>, temporal_patterns |-> <<>>],
     [learning_weights |-> << <<<<"x", ".", "c", "o">>, <<1, 10>> >> >>,
      category_patterns |-> << << <<"B">>, {<<"x", ".", "c", "o">>} >> >>,
      temporal_patterns |-> << << <<"B">>, <<0, 0, 0, 0, 0, 0>> >> >>]}

\* what SemanticAnalyzer.classify returns: None or a category with the
\* confidence 1.0
SemanticResults ==
    {<<>>, <<[method |-> "semantic_analyzer", category |-> <<"B">>, confidence |-> <<1, 1>>]>>}

\* what UserProfiler.classify returns: None or a category with a confidence
\* from 0.2 to 1.0
UserResults ==
    {<<>>, <<[method |-> "user_profiler", category |-> <<"A">>, confidence |-> <<1, 2>>]>>}

\* the times of a run, in hours: noon of the first day, 20 h of the second
Clocks == {12, 44}

\* the result of classifier which at the time now: the results returned,
\* each a category with its confidence
Classified(which, now) ==
    LET features == extract_features(cl.bookmark)
        Returned(r) == <<[category |-> r.category, confidence |-> r.confidence]>>
        Ensemble(r) == IF r.raised THEN <<>> ELSE Returned(r)
    IN  CASE which = "rule_engine" -> 
                LET r == Rule_classify(cl.config, features)
                IN  IF r = <<>> THEN <<>> ELSE Returned(r[1])
          [] which = "ensemble" ->
                Ensemble(AI_classify(cl.config, features, cl.semantic, cl.user,
                                     [raised |-> FALSE, result |-> <<>>]))
          [] which = "enhanced" ->
                Returned(Enhanced_classify(cl.config, features, cl.context, now, cl.learning))

InitClassify ==
    /\ cl \in [config    : Configs,
               bookmark  : ClassifyPool,
               context   : BOOLEAN,
               learning  : LearningStates,
               semantic  : SemanticResults,
               user      : UserResults,
               now       : Clocks,
               which     : {"none"},
               result    : {<<>>},
               again     : {<<>>},
               pc        : {0}]
    /\ OthersIdle("cl")

\* RuleEngine.classify(features)
RuleClassify ==
    /\ cl.pc = 0
    /\ cl' = [cl EXCEPT !.which = "rule_engine", !.result = Classified("rule_engine", cl.now),
                        !.pc = 1]
    /\ OthersUnchanged("cl")

\* AIBookmarkClassifier.classify(url, title)
EnsembleClassify ==
    /\ cl.pc = 0
    /\ cl' = [cl EXCEPT !.which = "ensemble", !.result = Classified("ensemble", cl.now),
                        !.pc = 1]
    /\ OthersUnchanged("cl")

\* EnhancedClassifier.classify(url, title, context)
EnhancedClassify ==
    /\ cl.pc = 0
    /\ cl' = [cl EXCEPT !.which = "enhanced", !.result = Classified("enhanced", cl.now),
                        !.pc = 1]
    /\ OthersUnchanged("cl")

\* a second run on the same configuration, learning data and bookmark, at
\* any time
ClassifyAgain ==
    /\ cl.pc = 1
    /\ \E now \in Clocks :
            cl' = [cl EXCEPT !.again = Classified(cl.which, now), !.pc = 2]
    /\ OthersUnchanged("cl")

NextClassify == RuleClassify \/ EnsembleClassify \/ EnhancedClassify \/ ClassifyAgain

SpecClassify == InitClassify /\ [][NextClassify]_vars

\* C5: the confidence of every result a classifier returns (rule engine,
\* ensemble, enhanced classifier) is in [0, 1], for every bookmark, every
\* configuration of rules and weights and every learning state.
C5_ConfidenceInUnitInterval ==
    \A k \in 1..Len(cl.result) :
        /\ ~FLess(cl.result[k].confidence, <<0, 1>>)
        /\ ~FLess(<<1, 1>>, cl.result[k].confidence)

\* C6: two runs on the same configuration and the same input, with the
\* machine-learning and the LLM classifier disabled, give a bookmark the
\* same category, whatever the wall-clock time of each run.
C6_SameCategoryEveryRun ==
    cl.pc = 2 =>
        [k \in 1..Len(cl.result) |-> cl.result[k].category]
            = [k \in 1..Len(cl.again) |-> cl.again[k].category]

(***************************************************************************)
(* LLM calls: the retry loop of LLMClassifier.classify and of              *)
(* LLMBookmarkOrganizer._call_llm.  A reply is [raised, status, data]:     *)
(* raised when requests.post raised, else the HTTP status and the value    *)
(* _safe_parse_json returns for the content: None (kind "none"), {} (kind  *)
(* "empty"), a JSON array (kind "list") or an object with a category and a *)
(* confidence, the confidence <<>> when it is not a number.                *)
(***************************************************************************)
MaxRetries == 2

\* one turn of the retry loop when the loop goes on after a usable reply
LLM_attempt_no_break(st, reply) ==
    LET Parsed(data) ==
            [calls |-> st.calls + 1, left |-> st.left - 1,
             data |-> IF data # <<>> THEN data ELSE st.data]
    IN  Parsed(IF ~reply.raised /\ reply.status < 400 /\ reply.data.kind \in {"list", "object"}
               THEN <<reply.data>> ELSE <<>>)

\* one turn of the retry loop: a request is counted and sent; the loop ends
\* with the first reply of a status below 400 whose parsed content is truthy
LLM_attempt(st, reply) ==
    LET Parsed(data) ==
            [calls |-> st.calls + 1, left |-> IF data # <<>> THEN 0 ELSE st.left - 1,
             data |-> data]
    IN  Parsed(IF ~reply.raised /\ reply.status < 400 /\ reply.data.kind \in {"list", "object"}
               THEN <<reply.data>> ELSE <<>>)

\* the retry loop, range(max_retries + 1), before its first turn
LLM_loop_start(max_retries) ==
    [calls |-> 0, left |-> IF max_retries + 1 > 0 THEN max_retries + 1 ELSE 0, data |-> <<>>]

\* the retry loop over the replies the server gives
RECURSIVE LLM_loop(_, _)
LLM_loop(st, replies) ==
    IF st.left = 0 \/ replies = <<>> THEN st
    ELSE LLM_loop(LLM_attempt(st, replies[1]), Tail(replies))

\* LLMClassifier.classify after the loop: None without data; AttributeError
\* for data that is no object and ValueError for a confidence that is no
\* number (raised); else the category, mapped to the uncategorized one when
\* it is not a category of the configuration, with the confidence clamped
\* to [0, 1]
LLM_classify_result(data, config) ==
    LET uncategorized == <<"u672A", "u5206", "u7C7B">>
        valid ==
            {config.category_rules[k].category : k \in 1..Len(config.category_rules)}
                \cup {uncategorized}
        Known(cat) == IF cat \in valid THEN cat ELSE uncategorized
        Clamped(c) ==
            IF FLess(c, <<0, 1>>) THEN <<0, 1>> ELSE IF FLess(<<1, 1>>, c) THEN <<1, 1>> ELSE c
    IN  IF data = <<>> THEN [raised |-> FALSE, result |-> <<>>]
        ELSE IF data[1].kind # "object" \/ data[1].confidence = <<>>
             THEN [raised |-> TRUE, result |-> <<>>]
        ELSE [raised |-> FALSE,
              result |-> <<[method     |-> "llm",
                            category   |-> Known(data[1].category),
                            confidence |-> Clamped(data[1].confidence[1])]>>]

\* LLMClassifier.classify(url, title, context) for a bookmark not in its
\* cache: None when the LLM is not enabled
LLM_classify(enable, replies, max_retries, config) ==
    IF ~enable THEN [raised |-> FALSE, result |-> <<>>]
    ELSE LLM_classify_result(LLM_loop(LLM_loop_start(max_retries), replies).data, config)

Reply(raised, status, kind, category, confidence) ==
    [raised |-> raised, status |-> status,
     data |-> [kind |-> kind, category |-> category, confidence |-> confidence]]

\* a connection error, an HTTP error, contents that are no JSON, {}, [1],
\* {"category": "A", "confidence": 0.9}, {"category": "B", "confidence":
\* "high"} and {"category": "C", "confidence": 1.5}
Replies ==
    {Reply(TRUE, 0, "none", <<>>, <<>>),
     Reply(FALSE, 500, "none", <<>>, <<>>),
     Reply(FALSE, 200, "none", <<>>, <<>>),
     Reply(FALSE, 200, "empty", <<>>, <<>>),
     Reply(FALSE, 200, "list", <<>>, <<>>),
     Reply(FALSE, 200, "object", <<"A">>, << <<9, 10>> >>),
     Reply(FALSE, 200, "object", <<"B">>, <<>>),
     Reply(FALSE, 200, "object", <<"C">>, << <<3, 2>> >>)}

\* the configuration of the calls: category A matches the title "foo",
\* category B the title "bar"
PoolConfig ==
    [priority_rules |-> <<>>,
     category_rules |->
        << [category |-> <<"A">>, weight |-> <<>>,
            rules |-> <<Rule("title", <<"f", "o", "o">>, << <<1, 1>> >>)>>],
           [category |-> <<"B">>, weight |-> <<>>,
            rules |-> <<Rule("title", <<"b", "a", "r">>, << <<1, 1>> >>)>>] >>,
     confidence_boost_factor |-> <<1, 1>>]

InitLLM ==
    /\ llm \in [which       : {"classifier", "organizer"},
                enable      : BOOLEAN,
                cached      : BOOLEAN,
                max_retries : 0..MaxRetries,
                st          : {LLM_loop_start(0)},
                replies     : {<<>>},
                outcome     : {"pending"},
                pc          : {"start"}]
    /\ OthersIdle("llm")

\* the call up to the loop: the classifier returns None when the LLM is not
\* enabled, both return the cached answer of an earlier call
LLMStart ==
    /\ llm.pc = "start"
    /\ llm' = IF llm.which = "classifier" /\ ~llm.enable
              THEN [llm EXCEPT !.outcome = "None", !.pc = "done"]
              ELSE IF llm.cached THEN [llm EXCEPT !.outcome = "cached", !.pc = "done"]
              ELSE [llm EXCEPT !.st = LLM_loop_start(llm.max_retries), !.pc = "loop"]
    /\ OthersUnchanged("llm")

\* one turn of the loop with any reply of the server
LLMRequest ==
    /\ llm.pc = "loop"
    /\ llm.st.left > 0
    /\ \E reply \in Replies :
            llm' = [llm EXCEPT !.st = LLM_attempt(llm.st, reply),
                               !.replies = Append(llm.replies, reply)]
    /\ OthersUnchanged("llm")

\* the end of the call: the organizer returns the parsed content or None,
\* the classifier its result, None or an exception
LLMReturn ==
    /\ llm.pc = "loop"
    /\ llm.st.left = 0
    /\ llm' = [llm EXCEPT
                !.outcome =
                    IF llm.st.data = <<>> THEN "None"
                    ELSE IF llm.which = "organizer" THEN "result"
                    ELSE IF LLM_classify_result(llm.st.data, PoolConfig).raised THEN "raised"
                    ELSE "result",
                !.pc = "done"]
    /\ OthersUnchanged("llm")

NextLLM == LLMStart \/ LLMRequest \/ LLMReturn

SpecLLM == InitLLM /\ [][NextLLM]_vars

\* C8: one LLM call sends at most max_retries + 1 requests, sends none after
\* the first usable reply (a status below 400 with content that parses to a
\* truthy value), and returns None after the last attempt when no reply was
\* usable.
C8_LLMRetriesBounded ==
    LET Usable(reply) ==
            ~reply.raised /\ reply.status < 400 /\ reply.data.kind \in {"list", "object"}
        sent == Len(llm.replies)
    IN  /\ llm.st.calls = sent
        /\ sent <= llm.max_retries + 1
        /\ \A k \in 1..(sent - 1) : ~Usable(llm.replies[k])
        /\ (llm.pc = "done" /\ llm.outcome = "None" /\ sent > 0) =>
                sent = llm.max_retries + 1
        /\ (llm.pc = "done" /\ sent > 0 /\ \A k \in 1..sent : ~Usable(llm.replies[k])) =>
                llm.outcome = "None"

\* a call that got its first usable reply on the first retry of two and
\* returned a result
C8_StoppedAtFirstUsable ==
    /\ llm.pc = "done"
    /\ llm.outcome = "result"
    /\ llm.max_retries = 2
    /\ llm.st.calls = 2

(***************************************************************************)
(* The classification worker pool of BookmarkProcessor.  The bookmarks     *)
(* have distinct URLs (the URL deduplication ran before), so the           *)
(* classification cache is never hit.                                      *)
(***************************************************************************)
MaxTasks == 3

MaxWorkers == 2

\* bookmarks with the replies the LLM server gives for them
PoolBookmarks ==
    {[url |-> <<"h", "t", "t", "p", ":", "/", "/", "a", ".", "c", "o", "/">>, title |-> <<"f", "o", "o">>, content_type |-> "webpage",
      replies |-> <<Reply(FALSE, 200, "object", <<"A">>, << <<9, 10>> >>)>>],
     [url |-> <<"h", "t", "t", "p", ":", "/", "/", "b", ".", "c", "o", "/">>, title |-> <<"f", "o", "o", " ", "2">>, content_type |-> "webpage",
      replies |-> <<Reply(FALSE, 200, "none", <<>>, <<>>), Reply(FALSE, 500, "none", <<>>, <<>>)>>],
     [url |-> <<"h", "t", "t", "p", ":", "/", "/", "c", ".", "c", "o", "/">>, title |-> <<"q", "u", "x">>, content_type |-> "webpage",
      replies |-> <<Reply(TRUE, 0, "none", <<>>, <<>>), Reply(FALSE, 200, "empty", <<>>, <<>>)>>],
     [url |-> <<"h", "t", "t", "p", ":", "/", "/", "d", ".", "c", "o", "/">>, title |-> <<"b", "a", "r">>, content_type |-> "webpage",
      replies |-> <<Reply(FALSE, 200, "object", <<"B">>, <<>>)>>]}

\* the categories a pool bookmark can get
PoolCategories == {<<"A">>, <<"B">>, <<"u672A", "u5206", "u7C7B">>}

\* BookmarkProcessor._classify_single_bookmark_cached up to the statistics:
\* the classified bookmark, or nothing when the classifier raised; failed
\* tells whether the classifier raised or the LLM gave no usable reply.  The
\* semantic analyzer and the user profiler return None for the pool.
Processor_classify_single_bookmark(bookmark, llm_enable, max_retries) ==
    LET Outcome(r, llm_result) ==
            [failed |-> r.raised \/ (llm_enable /\ llm_result.result = <<>>),
             result |-> IF r.raised THEN <<>>
                        ELSE <<[url |-> bookmark.url, title |-> bookmark.title,
                                category |-> r.category, confidence |-> r.confidence]>>]
        WithLLM(llm_result) ==
            Outcome(AI_classify(PoolConfig, extract_features(bookmark), <<>>, <<>>, llm_result),
                    llm_result)
    IN  WithLLM(LLM_classify(llm_enable, bookmark.replies, max_retries, PoolConfig))

InitPool ==
    /\ wp \in {[bookmarks            |-> l,
                llm_enable           |-> e,
                max_workers          |-> w,
                tasks                |-> [k \in 1..Len(l) |->
                                            [pc |-> "queued", failed |-> FALSE,
                                             result |-> <<>>, seen |-> 0]],
                cache                |-> {},
                categories_found     |-> [c \in PoolCategories |-> 0],
                classified_bookmarks |-> <<>>] :
                    l \in {s \in UNION {[1..n -> PoolBookmarks] : n \in 1..MaxTasks} :
                                \A i, j \in 1..Len(s) : s[i] = s[j] => i = j},
                    e \in BOOLEAN,
                    w \in 1..MaxWorkers}
    /\ OthersIdle("wp")

\* a free worker takes the next bookmark of the queue: the cache is missed,
\* the classifier is called, the result is cached; an exception ends the
\* task with None
Classify(k) ==
    LET done(c) ==
            [wp EXCEPT !.tasks[k] = [pc |-> IF c.result = <<>> THEN "returned" ELSE "classified",
                                     failed |-> c.failed, result |-> c.result, seen |-> 0],
                       !.cache = IF c.result = <<>> THEN @ ELSE @ \cup {wp.bookmarks[k].url}]
    IN  /\ wp.tasks[k].pc = "queued"
        /\ \A j \in 1..(k - 1) : wp.tasks[j].pc # "queued"
        /\ Cardinality({j \in 1..Len(wp.tasks) : wp.tasks[j].pc \in {"classified", "read"}})
                < wp.max_workers
        /\ wp.bookmarks[k].url \notin wp.cache
        /\ wp' = done(Processor_classify_single_bookmark(wp.bookmarks[k], wp.llm_enable, 1))
        /\ OthersUnchanged("wp")

\* self.stats['categories_found'].get(category, 0)
ReadCount(k) ==
    /\ wp.tasks[k].pc = "classified"
    /\ wp' = [wp EXCEPT !.tasks[k].seen = wp.categories_found[wp.tasks[k].result[1].category],
                        !.tasks[k].pc = "read"]
    /\ OthersUnchanged("wp")

\* self.stats['categories_found'][category] = ... + 1, and the return
WriteCount(k) ==
    /\ wp.tasks[k].pc = "read"
    /\ wp' = [wp EXCEPT !.categories_found[wp.tasks[k].result[1].category] = wp.tasks[k].seen + 1,
                        !.tasks[k].pc = "returned"]
    /\ OthersUnchanged("wp")

\* _classify_bookmarks_parallel takes a completed future and keeps its
\* result when it is not None
Collect(k) ==
    /\ wp.tasks[k].pc = "returned"
    /\ wp' = [wp EXCEPT !.classified_bookmarks = @ \o wp.tasks[k].result,
                        !.tasks[k].pc = "collected"]
    /\ OthersUnchanged("wp")

NextPool ==
    \E k \in 1..Len(wp.tasks) : Classify(k) \/ ReadCount(k) \/ WriteCount(k) \/ Collect(k)

SpecPool == InitPool /\ [][NextPool]_vars

\* C7: when the classification of a bookmark fails (an exception in a
\* classifier stage, or no usable reply from the LLM), the run goes on and
\* the bookmark is in the classified output with the uncategorized
\* category.
C7_FailedBookmarkUncategorized ==
    (\A k \in 1..Len(wp.tasks) : wp.tasks[k].pc = "collected") =>
        \A k \in 1..Len(wp.tasks) :
            wp.tasks[k].failed =>
                \E j \in 1..Len(wp.classified_bookmarks) :
                    /\ wp.classified_bookmarks[j].url = wp.bookmarks[k].url
                    /\ wp.classified_bookmarks[j].category = <<"u672A", "u5206", "u7C7B">>

\* C9: when the classification is complete, categories_found[c] is the
\* number of bookmarks the classifier was called on and gave category c,
\* for every interleaving of the workers.
C9_NoLostCategoryCount ==
    (\A k \in 1..Len(wp.tasks) : wp.tasks[k].pc = "collected") =>
        \A c \in PoolCategories :
            wp.categories_found[c] =
                Cardinality({k \in 1..Len(wp.tasks) :
                                /\ wp.tasks[k].result # <<>>
                                /\ wp.tasks[k].result[1].category = c})

(***************************************************************************)
(* The category tree.  BookmarkProcessor._organize_bookmarks builds it     *)
(* from the classified bookmarks; LLMBookmarkOrganizer.organize may        *)
(* replace it by the tree of the category mapping the LLM replied.  A tree *)
(* is the sequence of its primary nodes [name, items, subs] in the order   *)
(* of the dict, subs the sequence of the nodes [name, items] below it.     *)
(***************************************************************************)
MaxClassified == 3

\* LLMBookmarkOrganizer._count_items
Organizer_count_items(node) ==
    LET RECURSIVE Sum(_)
        Sum(m) == IF m = 0 THEN 0 ELSE Len(node.subs[m].items) + Sum(m - 1)
    IN  Len(node.items) + Sum(Len(node.subs))

\* the order _apply_mapping gives the nodes of a dict: the nodes named in
\* order first, in that order, then the others by sorted(key=count,
\* reverse=True), which is stable; count[n] is _count_items of nodes[n]
Organizer_ordered(nodes, order, count) ==
    LET Named == {k \in 1..Len(order) :
                     /\ \E n \in 1..Len(nodes) : nodes[n].name = order[k]
                     /\ \A j \in 1..(k - 1) : order[j] # order[k]}
        Rest == {n \in 1..Len(nodes) : \A k \in 1..Len(order) : order[k] # nodes[n].name}
        Rank(n) == Cardinality({j \in Rest : count[j] > count[n]})
                   + Cardinality({j \in Rest : j < n /\ count[j] = count[n]})
        Nth(p) == CHOOSE k \in Named : Cardinality({j \in Named : j < k}) = p - 1
    IN  (<<>> \o [p \in 1..Cardinality(Named) |->
                    nodes[CHOOSE n \in 1..Len(nodes) : nodes[n].name = order[Nth(p)]]])
        \o (<<>> \o [p \in 1..Cardinality(Rest) |->
                    nodes[CHOOSE n \in Rest : Rank(n) = p - 1]])

\* LLMBookmarkOrganizer._apply_mapping.  mapping and secondary_order are
\* dicts, the sequence of their <<key, value>>; <<>> is None or a missing
\* key
Organizer_apply_mapping(bookmarks, mapping, primary_order, secondary_order, fallback_primary, fallback_secondary) ==
    LET uncategorized == <<"u672A", "u5206", "u7C7B">>
        Or(a, b) == IF a # <<>> THEN a ELSE b
        Has(dict, key) == \E k \in 1..Len(dict) : dict[k][1] = key
        Get(dict, key, default) ==
            IF Has(dict, key) THEN dict[CHOOSE k \in 1..Len(dict) : dict[k][1] = key][2]
            ELSE default
        original_category(bookmark) ==
            Or(Strip(Or(bookmark.category, uncategorized)), uncategorized)
        map_entry(bookmark) ==
            Get(mapping, original_category(bookmark), [primary |-> <<>>, secondary |-> <<>>])
        FirstPart(s) == IF Find(s, "/", 1) = 0 THEN s ELSE SubSeq(s, 1, Find(s, "/", 1) - 1)
        primary(bookmark) ==
            Or(Strip(Or(map_entry(bookmark).primary,
                        Or(fallback_primary, FirstPart(original_category(bookmark))))),
               Or(fallback_primary, uncategorized))
        secondary(bookmark) == Strip(map_entry(bookmark).secondary)
        Index(nodes, name) == CHOOSE k \in 1..Len(nodes) : nodes[k].name = name
        \* dict.setdefault(name, node)
        SetDefault(nodes, node) ==
            IF \E k \in 1..Len(nodes) : nodes[k].name = node.name THEN nodes
            ELSE Append(nodes, node)
        Put(node, sub, bookmark) ==
            IF sub # <<>>
            THEN LET subs == SetDefault(node.subs, [name |-> sub, items |-> <<>>])
                 IN  [node EXCEPT !.subs =
                         [subs EXCEPT ![Index(subs, sub)].items = Append(@, bookmark)]]
            ELSE [node EXCEPT !.items = Append(@, bookmark)]
        Add(organized, name, sub, bookmark) ==
            LET nodes == SetDefault(organized, [name |-> name, items |-> <<>>, subs |-> <<>>])
            IN  [nodes EXCEPT ![Index(nodes, name)] = Put(@, sub, bookmark)]
        \* the first loop: every bookmark goes to the node of its mapping entry
        RECURSIVE Mapped(_, _)
        Mapped(k, organized) ==
            IF k > Len(bookmarks) THEN organized
            ELSE Mapped(k + 1, Add(organized, primary(bookmarks[k]),
                                   secondary(bookmarks[k]), bookmarks[k]))
        \* the second loop: every bookmark of a category that is no key of
        \* the mapping goes to the fallback node
        RECURSIVE Fallback(_, _)
        Fallback(k, organized) ==
            IF k > Len(bookmarks) THEN organized
            ELSE IF Has(mapping, original_category(bookmarks[k])) THEN Fallback(k + 1, organized)
            ELSE Fallback(k + 1, Add(organized, Or(fallback_primary, uncategorized),
                                     fallback_secondary, bookmarks[k]))
        Sorted(node) ==
            [name  |-> node.name,
             items |-> Processor_sort_items(node.items),
             subs  |-> LET subs == Organizer_ordered(
                                       node.subs, Get(secondary_order, node.name, <<>>),
                                       [m \in 1..Len(node.subs) |-> Len(node.subs[m].items)])
                       IN  <<>> \o [m \in 1..Len(subs) |->
                                      [name  |-> subs[m].name,
                                       items |-> Processor_sort_items(subs[m].items)]]]
        placed == Fallback(1, Mapped(1, <<>>))
        ordered == Organizer_ordered(placed, primary_order,
                                     [n \in 1..Len(placed) |-> Organizer_count_items(placed[n])])
    IN  <<>> \o [k \in 1..Len(ordered) |-> Sorted(ordered[k])]

\* _apply_mapping raises (AttributeError at map_entry.get) when the entry
\* of the category of a bookmark is no JSON object; such an entry is
\* written [text |-> ...]
Organizer_mapping_raises(bookmarks, mapping) ==
    LET uncategorized == <<"u672A", "u5206", "u7C7B">>
        Or(a, b) == IF a # <<>> THEN a ELSE b
        original_category(bookmark) ==
            Or(Strip(Or(bookmark.category, uncategorized)), uncategorized)
    IN  \E k \in 1..Len(bookmarks) : \E m \in 1..Len(mapping) :
            /\ mapping[m][1] = original_category(bookmarks[k])
            /\ "text" \in DOMAIN mapping[m][2]

\* organize when the fallback of its except clause is left out: the tree of
\* the reply without its category_mapping
Organizer_organize_no_fallback(bookmarks, baseline, llm_response) ==
    IF llm_response.kind = "none" \/ bookmarks = <<>> THEN <<>>
    ELSE <<Organizer_apply_mapping(bookmarks, <<>>, <<>>, <<>>, <<"u5176", "u4ED6">>, <<>>)>>

\* LLMBookmarkOrganizer.organize after _call_llm: <<>> for None, else
\* <<organized>>.  llm_response is what _call_llm returned: kind "none" for
\* None (and when the organizer is off or has no API key), "list" for JSON
\* that is no object.  llm_response.get or _apply_mapping raising is caught
\* and the baseline returned
Organizer_organize(bookmarks, baseline, llm_response) ==
    IF llm_response.kind = "none" \/ bookmarks = <<>> THEN <<>>
    ELSE IF llm_response.kind # "object" THEN <<baseline>>
    ELSE IF Organizer_mapping_raises(bookmarks, llm_response.category_mapping)
         THEN <<baseline>>
    ELSE <<Organizer_apply_mapping(
               bookmarks, llm_response.category_mapping, llm_response.primary_order,
               llm_response.secondary_order,
               IF llm_response.fallback_primary # <<>> THEN llm_response.fallback_primary
               ELSE <<"u5176", "u4ED6">>,
               llm_response.fallback_secondary_label)>>

\* a reply of the LLM with its category_mapping
Response(mapping, primary_order, secondary_order, fallback_primary, fallback_secondary_label) ==
    [kind |-> "object", category_mapping |-> mapping, primary_order |-> primary_order,
     secondary_order |-> secondary_order, fallback_primary |-> fallback_primary,
     fallback_secondary_label |-> fallback_secondary_label]

\* the replies: none, a JSON array, and mappings that cover all the
\* categories of ClassifiedPool, some of them (with and without a
\* fallback label, and with an entry that names no primary) and none,
\* and a mapping whose entry for "Ai" is a string
OrganizerResponses ==
    LET Entry(category, primary, secondary) ==
            <<category, [primary |-> primary, secondary |-> secondary]>>
        Ai == Entry(<<"A", "i">>, <<"A", "I">>, <<>>)
        All == <<Entry(<<"D", "e", "v", "/", "d", "o", "c">>, <<"T", "e", "c", "h">>, <<" ", "D", "o", "c", "s", " ">>),
                 Entry(<<"d", "e", "v">>, <<"T", "e", "c", "h">>, <<>>),
                 Ai,
                 Entry(<<"u672A", "u5206", "u7C7B">>, <<"M", "i", "s", "c">>, <<>>)>>
    IN  {[kind |-> "none"],
         [kind |-> "list"],
         Response(All, <<<<"A", "I">>, <<"T", "e", "c", "h">>>>,
                  << <<<<"T", "e", "c", "h">>, <<<<"D", "o", "c", "s">>>> >> >>, <<>>, <<>>),
         Response(<<Ai>>, <<<<"A", "I">>>>, <<>>, <<>>, <<>>),
         Response(<<Ai>>, <<>>, <<>>, <<"M", "i", "s", "c">>, <<"r", "e", "s", "t">>),
         Response(<<Entry(<<"A", "i">>, <<>>, <<"S">>)>>, <<>>, <<>>, <<>>, <<>>),
         Response(<<>>, <<>>, <<>>, <<>>, <<>>),
         Response(<< <<<<"A", "i">>, [text |-> <<"A", "I">>]>> >>, <<>>, <<>>, <<>>, <<>>)}

\* the classified bookmarks of a run: up to MaxClassified bookmarks, each
\* URL once (duplicates are removed before the classification)
ClassifiedRuns ==
    {l \in UNION {[1..n -> ClassifiedPool] : n \in 0..MaxClassified} :
        \A i, j \in 1..Len(l) : i # j => l[i] # l[j]}

InitTree ==
    /\ tr \in [bookmarks    : ClassifiedRuns,
               llm_response : OrganizerResponses,
               organized    : {<<>>},
               used         : {FALSE},
               pc           : {"classified"}]
    /\ OthersIdle("tr")

\* process_files: organized_bookmarks = self._organize_bookmarks(classified_bookmarks)
OrganizeBaseline ==
    /\ tr.pc = "classified"
    /\ tr' = [tr EXCEPT !.organized = Processor_organize_bookmarks(tr.bookmarks),
                        !.pc = "organized"]
    /\ OthersUnchanged("tr")

\* process_files: the tree of llm_organizer.organize replaces the baseline
\* when there is one and it is not empty; _sort_organized_structure
LLMOrganize ==
    /\ tr.pc = "organized"
    /\ LET llm_result == Organizer_organize(tr.bookmarks, tr.organized, tr.llm_response)
           used == llm_result # <<>> /\ llm_result[1] # <<>>
       IN  tr' = [tr EXCEPT !.organized =
                                Processor_sort_organized_structure(
                                    IF used THEN llm_result[1] ELSE tr.organized),
                            !.used = used,
                            !.pc = "done"]
    /\ OthersUnchanged("tr")

NextTree == OrganizeBaseline \/ LLMOrganize

SpecTree == InitTree /\ [][NextTree]_vars

\* C10: the category tree holds exactly the classified bookmarks: every
\* classified bookmark is in the item list of exactly one node, once, and
\* the tree holds no other item, for the tree of the baseline organizer
\* and for the tree of an LLM category mapping that covers all, some or
\* none of the categories.
C10_TreeHoldsClassified ==
    LET tree == tr.organized
        Slots == 1..(2 * MaxClassified)
        Direct(b) == {p \in (1..Len(tree)) \X Slots :
                         /\ p[2] <= Len(tree[p[1]].items)
                         /\ tree[p[1]].items[p[2]] = b}
        Below(b) == {p \in (1..Len(tree)) \X Slots \X Slots :
                        /\ p[2] <= Len(tree[p[1]].subs)
                        /\ p[3] <= Len(tree[p[1]].subs[p[2]].items)
                        /\ tree[p[1]].subs[p[2]].items[p[3]] = b}
        InTree(b) == Cardinality(Direct(b)) + Cardinality(Below(b))
        IsClassified(b) == \E k \in 1..Len(tr.bookmarks) : tr.bookmarks[k] = b
    IN  tr.pc \in {"organized", "done"} =>
            \A b \in ClassifiedPool : InTree(b) = IF IsClassified(b) THEN 1 ELSE 0

(***************************************************************************)
(* SpecOrganizer: one LLMBookmarkOrganizer with its reply cache and its    *)
(* statistics, called directly (organize) and from process_files.          *)
(***************************************************************************)
MaxCalls == 2

\* LLMBookmarkOrganizer.enabled: organizer_enable is <<>> when the key
\* llm.organizer.enable is absent
Organizer_enabled(llm_enable, organizer_enable) ==
    llm_enable /\ (organizer_enable = <<>> \/ organizer_enable = <<TRUE>>)

\* LLMBookmarkOrganizer._build_dataset_summary: for every category, by
\* count, its count, the mean confidence in thousandths, the confidence
\* bins, the domains by number and the first titles.  The cache key of
\* _call_llm is the md5 of the payload, whose only part that changes from
\* call to call is this summary.
Organizer_build_dataset_summary(bookmarks) ==
    LET uncategorized == <<"u672A", "u5206", "u7C7B">>
        Or(a, b) == IF a # <<>> THEN a ELSE b
        Upto(s, n) == SubSeq(s, 1, IF Len(s) < n THEN Len(s) ELSE n)
        \* the summaries for the category and the domain of every bookmark
        Summaries(category, domain) ==
            LET Members(k) == {j \in 1..Len(bookmarks) : category[j] = category[k]}
                Ordered(S) == <<>> \o [p \in 1..Cardinality(S) |->
                                          CHOOSE j \in S : Cardinality({i \in S : i < j}) = p - 1]
                RECURSIVE Total(_)
                Total(S) == IF S = {} THEN 0
                            ELSE bookmarks[SetMin(S)].confidence + Total(S \ {SetMin(S)})
                Bins(S) ==
                    [high   |-> Cardinality({j \in S : bookmarks[j].confidence >= 80}),
                     medium |-> Cardinality({j \in S : bookmarks[j].confidence >= 50
                                                       /\ bookmarks[j].confidence < 80}),
                     low    |-> Cardinality({j \in S : bookmarks[j].confidence < 50})]
                \* Counter.most_common(5): by number, the first seen first
                Number(S) == [j \in S |-> Cardinality({i \in S : domain[i] = domain[j]})]
                Seen(S) == {j \in S : domain[j] # <<>>
                                       /\ \A i \in S : i < j => domain[i] # domain[j]}
                Placed(seen, number) ==
                    <<>> \o [p \in 1..Cardinality(seen) |->
                        domain[CHOOSE j \in seen :
                                  Cardinality({i \in seen : number[i] > number[j]})
                                  + Cardinality({i \in seen : i < j /\ number[i] = number[j]})
                                  = p - 1]]
                Titles(T) == <<>> \o [p \in 1..Len(T) |-> Upto(bookmarks[T[p]].title, 160)]
                Summary(S) ==
                    [category        |-> category[SetMin(S)],
                     count           |-> Cardinality(S),
                     avg_confidence  |-> (20 * Total(S) + Cardinality(S)) \div (2 * Cardinality(S)),
                     confidence_bins |-> Bins(S),
                     top_domains     |-> Upto(Placed(Seen(S), Number(S)), 5),
                     sample_titles   |-> Upto(Titles(Ordered({j \in S : bookmarks[j].title # <<>>})), 5)]
                \* sorted(key=count, reverse=True) of the categories as first seen
                Sorted(firsts, size) ==
                    <<>> \o [p \in 1..Cardinality(firsts) |->
                        Summary(Members(CHOOSE k \in firsts :
                            Cardinality({j \in firsts : size[j] > size[k]})
                            + Cardinality({j \in firsts : j < k /\ size[j] = size[k]}) = p - 1))]
            IN  [bookmark_count |-> Len(bookmarks),
                 categories     |-> Sorted({k \in 1..Len(bookmarks) :
                                              \A j \in 1..(k - 1) : category[j] # category[k]},
                                           [k \in 1..Len(bookmarks) |-> Cardinality(Members(k))])]
    IN  Summaries(
            [k \in 1..Len(bookmarks) |->
                Or(Strip(Or(bookmarks[k].category, uncategorized)), uncategorized)],
            [k \in 1..Len(bookmarks) |->
                Replace(Lower(urlparse(bookmarks[k].url).netloc), <<"w", "w", "w", ".">>, <<>>)])

\* the classified bookmarks of the calls: none, one of category Ai, and
\* one of category Ai with one without category
OrganizerRuns ==
    LET Titled(c) == CHOOSE b \in ClassifiedPool : b.title[1] = c
    IN  {<<>>, <<Titled("t")>>, <<Titled("t"), Titled("f")>>}

\* _call_llm without the line that stores the reply in the cache
Organizer_call_llm_uncached(cache, stats, key, replies, max_retries) ==
    LET st == LLM_loop(LLM_loop_start(max_retries), replies)
    IN  IF \E c \in 1..Len(cache) : cache[c][1] = key
        THEN [parsed |-> cache[CHOOSE c \in 1..Len(cache) : cache[c][1] = key][2],
              cache  |-> cache,
              stats  |-> [stats EXCEPT !.cache_hits = @ + 1],
              sent   |-> 0]
        ELSE [parsed |-> IF st.data # <<>> THEN st.data[1] ELSE [kind |-> "none"],
              cache  |-> cache,
              stats  |-> [stats EXCEPT !.calls = @ + st.calls,
                                       !.failures = IF st.data # <<>> THEN @ ELSE @ + 1],
              sent   |-> st.calls]

\* LLMBookmarkOrganizer._call_llm(api_key, payload): the cached reply of
\* the payload, else the first usable reply of the retry loop, stored in
\* the cache, else None (kind "none") and a failure.  sent is the number of
\* HTTP requests.
Organizer_call_llm(cache, stats, key, replies, max_retries) ==
    LET st == LLM_loop(LLM_loop_start(max_retries), replies)
    IN  IF \E c \in 1..Len(cache) : cache[c][1] = key
        THEN [parsed |-> cache[CHOOSE c \in 1..Len(cache) : cache[c][1] = key][2],
              cache  |-> cache,
              stats  |-> [stats EXCEPT !.cache_hits = @ + 1],
              sent   |-> 0]
        ELSE [parsed |-> IF st.data # <<>> THEN st.data[1] ELSE [kind |-> "none"],
              cache  |-> IF st.data # <<>> THEN Append(cache, <<key, st.data[1]>>) ELSE cache,
              stats  |-> [stats EXCEPT !.calls = @ + st.calls,
                                       !.failures = IF st.data # <<>> THEN @ ELSE @ + 1],
              sent   |-> st.calls]

\* organize when enabled() and the API key are not looked at
Organizer_organize_call_unguarded(o, bookmarks, baseline, replies) ==
    LET called == Organizer_call_llm(o.cache, o.stats,
                                     Organizer_build_dataset_summary(bookmarks),
                                     replies, o.max_retries)
    IN  IF bookmarks = <<>>
        THEN [result |-> <<>>, cache |-> o.cache, stats |-> o.stats, sent |-> 0,
              llm_response |-> [kind |-> "none"]]
        ELSE [result |-> Organizer_organize(bookmarks, baseline, called.parsed),
              cache  |-> called.cache, stats |-> called.stats, sent |-> called.sent,
              llm_response |-> called.parsed]

\* LLMBookmarkOrganizer.organize(bookmarks, baseline) on the organizer o
\* while the server answers with replies: the result (<<>> for None), the
\* cache and the statistics after the call, the number of HTTP requests
\* and what _call_llm returned (kind "none" also when it was not called)
Organizer_organize_call(o, bookmarks, baseline, replies) ==
    LET called == Organizer_call_llm(o.cache, o.stats,
                                     Organizer_build_dataset_summary(bookmarks),
                                     replies, o.max_retries)
    IN  IF ~Organizer_enabled(o.llm_enable, o.organizer_enable) \/ ~o.api_key
           \/ bookmarks = <<>>
        THEN [result |-> <<>>, cache |-> o.cache, stats |-> o.stats, sent |-> 0,
              llm_response |-> [kind |-> "none"]]
        ELSE [result |-> Organizer_organize(bookmarks, baseline, called.parsed),
              cache  |-> called.cache, stats |-> called.stats, sent |-> called.sent,
              llm_response |-> called.parsed]

\* the replies of the server to the organizer: a connection error, HTTP
\* 500, and HTTP 200 with a JSON array, with the mapping of all
\* categories, and with the mapping whose entry is a string
OrganizerReplies ==
    {[raised |-> TRUE, status |-> 0, data |-> [kind |-> "none"]],
     [raised |-> FALSE, status |-> 500, data |-> [kind |-> "none"]]}
    \cup {[raised |-> FALSE, status |-> 200, data |-> r] :
            r \in {r \in OrganizerResponses :
                     \/ r.kind = "list"
                     \/ /\ r.kind = "object"
                        /\ \/ Len(r.category_mapping) = 4
                           \/ /\ r.category_mapping # <<>>
                              /\ "text" \in DOMAIN r.category_mapping[1][2]}}

\* what the server is asked during one call: the replies up to the first
\* usable one, at most max_retries + 1
OrganizerReplySeqs(max_retries) ==
    LET Usable(r) == ~r.raised /\ r.status < 400 /\ r.data.kind \in {"list", "object"}
    IN  {s \in UNION {[1..n -> OrganizerReplies] : n \in 1..(max_retries + 1)} :
            /\ \A k \in 1..(Len(s) - 1) : ~Usable(s[k])
            /\ Len(s) = max_retries + 1 \/ Usable(s[Len(s)])}

\* the values of llm.max_retries
OrganizerRetries == {0, 1}

InitOrganizer ==
    /\ og \in [llm_enable       : BOOLEAN,
               organizer_enable : {<<>>, <<TRUE>>, <<FALSE>>},
               api_key          : BOOLEAN,
               max_retries      : OrganizerRetries,
               cache            : {<<>>},
               stats            : {[calls |-> 0, cache_hits |-> 0, failures |-> 0]},
               log              : {<<>>}]
    /\ OthersIdle("og")

\* the organizer after a call, with the call in the log
Organizer_after(op, bookmarks, baseline, replies, done, exported) ==
    [og EXCEPT !.cache = done.cache,
               !.stats = done.stats,
               !.log = Append(@, [op |-> op, bookmarks |-> bookmarks, baseline |-> baseline,
                                  llm_response |-> done.llm_response,
                                  result |-> done.result,
                                  sent |-> done.sent, before |-> og.stats,
                                  after |-> done.stats,
                                  exported |-> exported])]

\* organizer.organize(bookmarks, baseline=baseline), as the tests call it
Organize ==
    /\ Len(og.log) < MaxCalls
    /\ \E bookmarks \in OrganizerRuns :
       \E baseline \in {<<>>, Processor_organize_bookmarks(bookmarks)} :
       \E replies \in OrganizerReplySeqs(og.max_retries) :
            og' = Organizer_after("organize", bookmarks, baseline, replies,
                                  Organizer_organize_call(og, bookmarks, baseline, replies),
                                  <<>>)
    /\ OthersUnchanged("og")

\* process_files from the baseline tree to the tree that is exported: the
\* organizer is called when it is enabled, and its tree taken when it
\* returned one that is not empty
ProcessFiles ==
    /\ Len(og.log) < MaxCalls
    /\ \E bookmarks \in OrganizerRuns :
       \E replies \in OrganizerReplySeqs(og.max_retries) :
            LET organized_bookmarks == Processor_organize_bookmarks(bookmarks)
                done == IF Organizer_enabled(og.llm_enable, og.organizer_enable)
                        THEN Organizer_organize_call(og, bookmarks, organized_bookmarks, replies)
                        ELSE [result |-> <<>>, cache |-> og.cache, stats |-> og.stats,
                              sent |-> 0, llm_response |-> [kind |-> "none"]]
                used == done.result # <<>> /\ done.result[1] # <<>>
            IN  og' = Organizer_after("process_files", bookmarks, organized_bookmarks,
                                      replies, done,
                                      Processor_sort_organized_structure(
                                          IF used THEN done.result[1]
                                          ELSE organized_bookmarks))
    /\ OthersUnchanged("og")

NextOrganizer == Organize \/ ProcessFiles

SpecOrganizer == InitOrganizer /\ [][NextOrganizer]_vars

\* the organizer is enabled and has its API key
Organizer_live ==
    Organizer_enabled(og.llm_enable, og.organizer_enable) /\ og.api_key

\* C11: when the LLM organization fails in a run of process_files (no
\* usable reply after the retries, a reply that is no JSON object, or an
\* exception while the mapping is applied), the tree that is exported is
\* the baseline tree of the rule-based organizer.
C11_FallsBackToBaseline ==
    \A k \in 1..Len(og.log) :
        LET call == og.log[k]
            failed ==
                \/ call.llm_response.kind # "object"
                \/ Organizer_mapping_raises(call.bookmarks, call.llm_response.category_mapping)
        IN  (call.op = "process_files" /\ Organizer_live /\ call.bookmarks # <<>> /\ failed) =>
                call.exported = Processor_organize_bookmarks(call.bookmarks)

\* a run of process_files in which two requests were sent, the reply was a
\* mapping that cannot be applied, and a tree was exported
C11_FellBack ==
    \E k \in 1..Len(og.log) :
        /\ og.log[k].op = "process_files"
        /\ og.log[k].sent = 2
        /\ og.log[k].llm_response.kind = "object"
        /\ Organizer_mapping_raises(og.log[k].bookmarks,
                                    og.log[k].llm_response.category_mapping)
        /\ og.log[k].exported # <<>>

\* an organize call that obtained a valid reply: a JSON object whose
\* mapping was applied
Organizer_valid(call) ==
    /\ call.llm_response.kind = "object"
    /\ ~Organizer_mapping_raises(call.bookmarks, call.llm_response.category_mapping)

\* C12: after an organize call that obtained a valid LLM reply, every later
\* organize call of the organizer with the same bookmarks sends no HTTP
\* request, returns an organized tree equal to the first one and increases
\* cache_hits.
C12_SecondCallFromCache ==
    \A i, j \in 1..Len(og.log) :
        (i < j /\ Organizer_valid(og.log[i]) /\ og.log[j].bookmarks = og.log[i].bookmarks) =>
            /\ og.log[j].sent = 0
            /\ og.log[j].result = og.log[i].result
            /\ og.log[j].after.cache_hits = og.log[j].before.cache_hits + 1

\* two calls with the same bookmarks, the first answered by the server with
\* a valid reply, the second given another baseline
C12_CalledTwice ==
    /\ Len(og.log) = 2
    /\ og.log[1].sent > 0
    /\ Organizer_valid(og.log[1])
    /\ og.log[2].bookmarks = og.log[1].bookmarks
    /\ og.log[2].baseline # og.log[1].baseline
    /\ og.log[2].result # <<>>

\* C13: a disabled organizer (llm.enable false or llm.organizer.enable
\* false) and an organizer without API key do nothing: organize returns
\* None for any bookmarks and baseline, sends no HTTP request and changes
\* no statistics.
C13_DisabledDoesNothing ==
    ~Organizer_live =>
        /\ og.cache = <<>>
        /\ \A k \in 1..Len(og.log) :
                /\ og.log[k].result = <<>>
                /\ og.log[k].sent = 0
                /\ og.log[k].after = og.log[k].before

\* organize was called with bookmarks on an organizer that is enabled but
\* has no API key
C13_CalledWithoutKey ==
    /\ Organizer_enabled(og.llm_enable, og.organizer_enable)
    /\ ~og.api_key
    /\ \E k \in 1..Len(og.log) : og.log[k].op = "organize" /\ og.log[k].bookmarks # <<>>
                                  /\ og.log[k].baseline # <<>>

(***************************************************************************)
(* Configuration: EnhancedConfigManager and ConfigValidator.               *)
(*                                                                         *)
(* A JSON value is a record [t, v]: t is "null", "int", "float" (v in      *)
(* tenths), "str" (v a sequence of characters), "arr" (v a sequence of     *)
(* values) or "obj" (v a function from keys to values).  The configuration *)
(* file has the suffix .json; no change listener is registered.            *)
(***************************************************************************)
MaxThreads == 2

Null == [t |-> "null", v |-> 0]

JsonInt(n) == [t |-> "int", v |-> n]

JsonFloat(tenths) == [t |-> "float", v |-> tenths]

Str(s) == [t |-> "str", v |-> s]

Arr(a) == [t |-> "arr", v |-> a]

Obj(d) == [t |-> "obj", v |-> d]

\* a dict literal from its (key, value) pairs
Dict(pairs) ==
    [k \in {pairs[i][1] : i \in 1..Len(pairs)} |->
        pairs[CHOOSE i \in 1..Len(pairs) : pairs[i][1] = k][2]]

\* Python ==: the tags are compared before the values
JsonEq(x, y) == x.t = y.t /\ x.v = y.v

IsNumber(x) == x.t \in {"int", "float"}

\* a number in tenths
Tenths(x) == IF x.t = "int" THEN 10 * x.v ELSE x.v

\* d.get(key, default) of a dict d
DictGetOr(d, key, default) == IF key \in DOMAIN d THEN d[key] ELSE default

\* ConfigValidator._create_schema: the schema as a value; a schema is a
\* record of the keywords it has ("pattern" is the patternProperties schema
\* of the pattern ".*", which every key matches)
Validator_create_schema ==
    LET strings == [type |-> "array", items |-> [type |-> "string"]]
        unit    == [type |-> "number", minimum |-> 0, maximum |-> 10]
        rule    == [type |-> "object",
                    properties |->
                        Dict(<< <<<<"m", "a", "t", "c", "h">>,
                                  [type |-> "string",
                                   enum |-> {<<"d", "o", "m", "a", "i", "n">>, <<"u", "r", "l">>,
                                             <<"t", "i", "t", "l", "e">>, <<"p", "a", "t", "h">>,
                                             <<"c", "o", "n", "t", "e", "n",
                                              "t", "_", "t", "y", "p", "e">>}]>>,
                                <<<<"k", "e", "y", "w", "o", "r", "d", "s">>, strings>>,
                                <<<<"w", "e", "i", "g", "h", "t">>, [type |-> "number", minimum |-> 0]>>,
                                <<<<"m", "u", "s", "t", "_", "n", "o", "t",
                                    "_", "c", "o", "n", "t", "a", "i", "n">>, strings>> >>),
                    required |-> {<<"m", "a", "t", "c", "h">>, <<"k", "e", "y", "w", "o", "r", "d", "s">>}]
    IN  [type |-> "object",
         properties |->
             Dict(<< <<<<"t", "i", "t", "l", "e", "_", "c", "l", "e", "a", "n",
                       "i", "n", "g", "_", "r", "u", "l", "e", "s">>,
                       [type |-> "object",
                        properties |->
                            Dict(<< <<<<"p", "r", "e", "f", "i", "x", "e", "s">>, strings>>,
                                    <<<<"s", "u", "f", "f", "i", "x", "e", "s">>, strings>>,
                                    <<<<"r", "e", "p", "l", "a", "c", "e", "m",
                                      "e", "n", "t", "s">>, [type |-> "object"]>> >>)]>>,
                     <<<<"a", "d", "v", "a", "n", "c", "e", "d", "_", "s",
                         "e", "t", "t", "i", "n", "g", "s">>,
                       [type |-> "object",
                        properties |->
                            Dict(<< <<<<"c", "l", "a", "s", "s", "i", "f", "i",
                                      "c", "a", "t", "i", "o", "n", "_", "t",
                                      "h", "r", "e", "s", "h", "o", "l", "d">>, unit>>,
                                    <<<<"l", "e", "a", "r", "n", "i", "n", "g",
                                      "_", "r", "a", "t", "e">>, unit>>,
                                    <<<<"m", "a", "x", "_", "c", "a", "t", "e",
                                      "g", "o", "r", "i", "e", "s">>,
                                      [type |-> "integer", minimum |-> 10]>>,
                                    <<<<"c", "a", "c", "h", "e", "_", "s", "i",
                                      "z", "e">>,
                                      [type |-> "integer", minimum |-> 1000]>> >>)]>>,
                     <<<<"c", "a", "t", "e", "g", "o", "r", "y", "_", "r",
                         "u", "l", "e", "s">>,
                       [type |-> "object",
                        pattern |->
                            [type |-> "object",
                             properties |->
                                 Dict(<< <<<<"r", "u", "l", "e", "s">>,
                                           [type |-> "array", items |-> rule]>> >>)]]>>,
                     <<<<"c", "a", "t", "e", "g", "o", "r", "y", "_", "o",
                         "r", "d", "e", "r">>, strings>> >>),
         required |-> {<<"c", "a", "t", "e", "g", "o", "r", "y", "_", "r",
                        "u", "l", "e", "s">>}]

\* jsonschema.validate(instance, schema) raises no ValidationError; minimum
\* and maximum are in tenths
RECURSIVE jsonschema_valid(_, _)
jsonschema_valid(instance, schema) ==
    LET has(keyword) == keyword \in DOMAIN schema
        is_type(type) ==
            CASE type = "object"  -> instance.t = "obj"
              [] type = "array"   -> instance.t = "arr"
              [] type = "string"  -> instance.t = "str"
              [] type = "number"  -> IsNumber(instance)
              [] type = "integer" -> \/ instance.t = "int"
                                     \/ instance.t = "float" /\ instance.v % 10 = 0
    IN  /\ has("type") => is_type(schema.type)
        /\ has("enum") => instance.t = "str" /\ instance.v \in schema.enum
        /\ (has("minimum") /\ IsNumber(instance)) => Tenths(instance) >= schema.minimum
        /\ (has("maximum") /\ IsNumber(instance)) => Tenths(instance) <= schema.maximum
        /\ (has("required") /\ instance.t = "obj") => schema.required \subseteq DOMAIN instance.v
        /\ (has("properties") /\ instance.t = "obj") =>
               \A k \in DOMAIN instance.v \cap DOMAIN schema.properties :
                   jsonschema_valid(instance.v[k], schema.properties[k])
        /\ (has("pattern") /\ instance.t = "obj") =>
               \A k \in DOMAIN instance.v : jsonschema_valid(instance.v[k], schema.pattern)
        /\ (has("items") /\ instance.t = "arr") =>
               \A i \in 1..Len(instance.v) : jsonschema_valid(instance.v[i], schema.items)

\* ConfigValidator.validate: the kinds of the errors of the returned list,
\* {"raises"} when _custom_validation raises instead of returning
Validator_validate(config) ==
    LET falsy(x) ==
            \/ x.t = "null"
            \/ IsNumber(x) /\ x.v = 0
            \/ x.t \in {"str", "arr", "obj"} /\ x.v = <<>>
        \* enumerate(rules): the rules, or a raise
        rule_raises(rule) ==
            \/ rule.t # "obj"
            \/ ~IsNumber(DictGetOr(rule.v, <<"w", "e", "i", "g", "h", "t">>, JsonInt(1)))
        rules_raise(rules) ==
            \/ rules.t \in {"null", "int", "float"}
            \/ rules.t \in {"str", "obj"} /\ rules.v # <<>>
            \/ rules.t = "arr" /\ \E i \in 1..Len(rules.v) : rule_raises(rules.v[i])
        rules_of(rules_data) == DictGetOr(rules_data.v, <<"r", "u", "l", "e", "s">>, Arr(<<>>))
        category_rules == DictGetOr(config.v, <<"c", "a", "t", "e", "g", "o",
                                                "r", "y", "_", "r", "u", "l",
                                                "e", "s">>, Obj(<<>>))
        category_order == DictGetOr(config.v, <<"c", "a", "t", "e", "g", "o",
                                                "r", "y", "_", "o", "r", "d",
                                                "e", "r">>, Arr(<<>>))
        raises ==
            \/ config.t # "obj"
            \/ category_rules.t # "obj"
            \/ \E c \in DOMAIN category_rules.v :
                  \/ category_rules.v[c].t # "obj"
                  \/ rules_raise(rules_of(category_rules.v[c]))
            \/ category_order.t \in {"null", "int", "float"}
            \/ category_order.t = "arr" /\ \E i \in 1..Len(category_order.v) :
                                               category_order.v[i].t \in {"arr", "obj"}
        ordered_categories ==
            CASE category_order.t = "arr" ->
                     {category_order.v[i].v :
                         i \in {j \in 1..Len(category_order.v) : category_order.v[j].t = "str"}}
              [] category_order.t = "str" ->
                     {<<category_order.v[i]>> : i \in 1..Len(category_order.v)}
              [] OTHER -> DOMAIN category_order.v
        all_rules ==
            UNION {{rules_of(category_rules.v[c]).v[i] :
                        i \in 1..Len(rules_of(category_rules.v[c]).v)} :
                   c \in DOMAIN category_rules.v}
    IN  IF raises THEN {"raises"}
        ELSE (IF jsonschema_valid(config, Validator_create_schema) THEN {} ELSE {"schema"})
             \cup {"no_rules" : c \in {d \in DOMAIN category_rules.v :
                                          falsy(rules_of(category_rules.v[d]))}}
             \cup {"no_keywords" : rule \in {r \in all_rules :
                                          falsy(DictGetOr(r.v, <<"k",
                                                                      "e",
                                                                      "y",
                                                                      "w",
                                                                      "o",
                                                                      "r",
                                                                      "d", "s">>, Arr(<<>>)))}}
             \cup {"negative_weight" : rule \in {r \in all_rules :
                                          DictGetOr(r.v, <<"w",
                                                                      "e",
                                                                      "i",
                                                                      "g",
                                                                      "h", "t">>, JsonInt(1)).v < 0}}
             \cup (IF DOMAIN category_rules.v \subseteq ordered_categories THEN {}
                   ELSE {"missing_in_order"})

\* EnhancedConfigManager.get(path): the value, None (the default) when a key
\* is missing or a value on the way has no keys
Config_get(config, path) ==
    LET RECURSIVE walk(_, _)
        walk(current, keys) ==
            IF keys = <<>> THEN current
            ELSE IF current.t = "obj" /\ keys[1] \in DOMAIN current.v
                 THEN walk(current.v[keys[1]], Tail(keys))
                 ELSE Null
    IN  walk(config, Split(path, "."))

\* set(path, value) that assigns the last key at the top of the configuration
Config_set_flat(config, path, value) ==
    LET keys == Split(path, ".")
    IN  [raises |-> FALSE,
         config |-> Obj([k \in DOMAIN config.v \cup {keys[Len(keys)]} |->
                            IF k = keys[Len(keys)] THEN value ELSE config.v[k]])]

\* EnhancedConfigManager.set(path, value): missing parents are created as
\* empty dicts; a parent that is no dict makes the call raise, and it raises
\* before anything is assigned
Config_set(config, path, value) ==
    LET RECURSIVE reaches(_, _)
        reaches(current, keys) ==
            /\ current.t = "obj"
            /\ \/ Len(keys) = 1
               \/ keys[1] \notin DOMAIN current.v
               \/ reaches(current.v[keys[1]], Tail(keys))
        RECURSIVE assign(_, _)
        assign(current, keys) ==
            Obj([k \in DOMAIN current.v \cup {keys[1]} |->
                    IF k # keys[1] THEN current.v[k]
                    ELSE IF Len(keys) = 1 THEN value
                    ELSE assign(DictGetOr(current.v, k, Obj(<<>>)), Tail(keys))])
    IN  IF reaches(config, Split(path, "."))
        THEN [raises |-> FALSE, config |-> assign(config, Split(path, "."))]
        ELSE [raises |-> TRUE, config |-> config]

\* float(value) of an environment variable, in tenths: digits with at most
\* one "." and one digit after it; -1 for a ValueError
float_of(value) ==
    LET digits(s) == \A i \in 1..Len(s) : CodePoint[s[i]] \in 48..57
        RECURSIVE int_of(_)
        int_of(s) ==
            IF s = <<>> THEN 0
            ELSE 10 * int_of(SubSeq(s, 1, Len(s) - 1)) + (CodePoint[s[Len(s)]] - 48)
        parts == Split(value, ".")
    IN  IF Len(parts) = 1 /\ parts[1] # <<>> /\ digits(parts[1])
        THEN 10 * int_of(parts[1])
        ELSE IF /\ Len(parts) = 2 /\ parts[1] \o parts[2] # <<>>
                /\ digits(parts[1]) /\ digits(parts[2]) /\ Len(parts[2]) <= 1
             THEN 10 * int_of(parts[1]) + int_of(parts[2])
             ELSE -1

\* EnhancedConfigManager._apply_env_overrides with
\* BOOKMARK_CLASSIFICATION_THRESHOLD = env (<<>> for an unset variable; the
\* other four variables are unset): the section is created before the value
\* is converted, and a TypeError or ValueError leaves the rest as it is
Config_apply_env_overrides(config, env) ==
    LET section == <<"a", "d", "v", "a", "n", "c", "e", "d", "_", "s", "e",
                     "t", "t", "i", "n", "g", "s">>
        key == <<"c", "l", "a", "s", "s", "i", "f", "i", "c", "a", "t", "i",
                 "o", "n", "_", "t", "h", "r", "e", "s", "h", "o", "l", "d">>
        created == IF section \in DOMAIN config.v THEN config
                   ELSE Obj([k \in DOMAIN config.v \cup {section} |->
                                IF k = section THEN Obj(<<>>) ELSE config.v[k]])
    IN  IF env = <<>> \/ config.t # "obj" THEN config
        ELSE IF float_of(env) < 0 \/ created.v[section].t # "obj" THEN created
        ELSE Obj([created.v EXCEPT ![section] =
                     Obj([k \in DOMAIN created.v[section].v \cup {key} |->
                             IF k = key THEN JsonFloat(float_of(env))
                             ELSE created.v[section].v[k]])])

\* EnhancedConfigManager.reload_config: the file is loaded (a missing file
\* and a file that is no JSON raise), overridden from the environment and
\* validated; every exception is caught and gives False
Config_reload_config(config, file, env) ==
    LET new_config == Config_apply_env_overrides(file.value, env)
    IN  IF file.kind # "json" THEN [ok |-> FALSE, config |-> config]
        ELSE IF Validator_validate(new_config) # {} THEN [ok |-> FALSE, config |-> config]
        ELSE [ok |-> TRUE, config |-> new_config]

(***************************************************************************)
(* SpecConfig: threads call get, set and reload_config on one manager      *)
(* while the configuration file is rewritten.  Each call holds config_lock *)
(* from its first statement to its return, so a call begins when its       *)
(* thread gets the lock.                                                   *)
(***************************************************************************)
\* a valid configuration with the given threshold (in tenths) and order
ConfigOf(threshold, order) ==
    Obj(Dict(<<
        <<<<"c", "a", "t", "e", "g", "o", "r", "y", "_", "r", "u", "l", "e",
            "s">>,
          Obj(Dict(<< <<<<"D", "e", "v">>,
                        Obj(Dict(<< <<<<"r", "u", "l", "e", "s">>,
                                      Arr(<< Obj(Dict(<<
                                          <<<<"m", "a", "t", "c", "h">>, Str(<<"d", "o", "m",
                                                              "a", "i", "n">>)>>,
                                          <<<<"k", "e", "y", "w", "o", "r",
                                              "d", "s">>, Arr(<<Str(<<"g", "i", "t">>)>>)>>,
                                          <<<<"w", "e", "i", "g", "h", "t">>, JsonInt(10)>> >>)) >>)>> >>))>> >>))>>,
        <<<<"c", "a", "t", "e", "g", "o", "r", "y", "_", "o", "r", "d", "e",
            "r">>, Arr(order)>>,
        <<<<"a", "d", "v", "a", "n", "c", "e", "d", "_", "s", "e", "t", "t",
            "i", "n", "g", "s">>,
          Obj(Dict(<< <<<<"c", "l", "a", "s", "s", "i", "f", "i", "c", "a",
                          "t", "i", "o", "n", "_", "t", "h", "r", "e", "s",
                          "h", "o", "l", "d">>, JsonFloat(threshold)>> >>))>> >>))

\* the configuration file: missing, two valid configurations, a threshold
\* above 1, a category that category_order does not name, a JSON list
ConfigFiles ==
    {[kind |-> "missing", value |-> Null],
     [kind |-> "json", value |-> ConfigOf(7, <<Str(<<"D", "e", "v">>)>>)],
     [kind |-> "json", value |-> ConfigOf(5, <<Str(<<"D", "e", "v">>), Str(<<"N", "e", "w">>)>>)],
     [kind |-> "json", value |-> ConfigOf(15, <<Str(<<"D", "e", "v">>)>>)],
     [kind |-> "json", value |-> ConfigOf(7, <<>>)],
     [kind |-> "json", value |-> Arr(<<>>)]}

\* BOOKMARK_CLASSIFICATION_THRESHOLD: unset, 0.5, x
ConfigEnvs == {<<>>, <<"0", ".", "5">>, <<"x">>}

\* the calls set(path, value) of the threads
ConfigSets ==
    {[path |-> <<"a", "d", "v", "a", "n", "c", "e", "d", "_", "s", "e", "t",
                "t", "i", "n", "g", "s", ".", "c", "l", "a", "s", "s", "i",
                "f", "i", "c", "a", "t", "i", "o", "n", "_", "t", "h", "r",
                "e", "s", "h", "o", "l", "d">>, value |-> JsonFloat(8)],
     [path |-> <<"a", "d", "v", "a", "n", "c", "e", "d", "_", "s", "e", "t",
                "t", "i", "n", "g", "s", ".", "c", "l", "a", "s", "s", "i",
                "f", "i", "c", "a", "t", "i", "o", "n", "_", "t", "h", "r",
                "e", "s", "h", "o", "l", "d">>, value |-> JsonInt(5)],
     [path |-> <<"c", "a", "t", "e", "g", "o", "r", "y", "_", "r", "u", "l",
                "e", "s", ".", "N", "e", "w">>, value |-> Obj(<<>>)],
     [path |-> <<"x", ".", "y">>, value |-> Str(<<"s">>)],
     [path |-> <<"x">>, value |-> JsonInt(5)],
     [path |-> <<"c", "a", "t", "e", "g", "o", "r", "y", "_", "o", "r", "d",
                "e", "r", ".", "x">>, value |-> JsonInt(1)]}

\* the paths of the calls get(path)
ConfigGets == {c.path : c \in ConfigSets}

ConfigThreads == 1..MaxThreads

\* the manager after EnhancedConfigManager(primary_config_path):
\* _load_initial_config calls reload_config, which catches what it raises
\* and returns False, so config stays {} when the first load fails
InitConfig ==
    /\ \E file \in ConfigFiles, env \in ConfigEnvs :
          cf = [file     |-> file,
                env      |-> env,
                config   |-> Config_reload_config(Obj(<<>>), file, env).config,
                lock     |-> 0,
                op       |-> [name |-> "none"],
                last     |-> [kind |-> "none"],
                returned |-> [name |-> "none"]]
    /\ OthersIdle("cf")

\* the configuration file is rewritten
WriteFile ==
    /\ \E file \in ConfigFiles \ {cf.file} : cf' = [cf EXCEPT !.file = file]
    /\ OthersUnchanged("cf")

\* `with self.config_lock` of a call of thread t: the lock is free; what the
\* call before returned is dropped
ConfigLock ==
    /\ cf.lock = 0
    /\ \E t \in ConfigThreads :
          \E op \in {[name |-> "set", path |-> c.path, value |-> c.value] : c \in ConfigSets}
                    \cup {[name |-> "get", path |-> p] : p \in ConfigGets}
                    \cup {[name |-> "reload"]} :
              cf' = [cf EXCEPT !.lock = t, !.op = op, !.returned = [name |-> "none"]]
    /\ OthersUnchanged("cf")

\* EnhancedConfigManager.set: the last call that returned is recorded
ConfigSet ==
    /\ cf.lock # 0
    /\ cf.op.name = "set"
    /\ LET result == Config_set(cf.config, cf.op.path, cf.op.value)
       IN  cf' = [cf EXCEPT !.config = result.config,
                            !.last = IF result.raises THEN @
                                     ELSE [kind |-> "set", by |-> cf.lock,
                                           path |-> cf.op.path, value |-> cf.op.value],
                            !.returned = [name |-> "set", raises |-> result.raises],
                            !.lock = 0,
                            !.op = [name |-> "none"]]
    /\ OthersUnchanged("cf")

\* EnhancedConfigManager.get: the returned value is recorded with the last
\* set that no successful reload has followed
ConfigGet ==
    /\ cf.lock # 0
    /\ cf.op.name = "get"
    /\ cf' = [cf EXCEPT !.returned = [name |-> "get", by |-> cf.lock, path |-> cf.op.path,
                                      value |-> Config_get(cf.config, cf.op.path),
                                      since |-> cf.last],
                        !.lock = 0,
                        !.op = [name |-> "none"]]
    /\ OthersUnchanged("cf")

\* EnhancedConfigManager.reload_config, called by a thread or by the file
\* monitor
ConfigReload ==
    /\ cf.lock # 0
    /\ cf.op.name = "reload"
    /\ LET result == Config_reload_config(cf.config, cf.file, cf.env)
       IN  cf' = [cf EXCEPT !.config = result.config,
                            !.returned = [name |-> "reload", ok |-> result.ok,
                                          kept |-> result.config = cf.config],
                            !.last = IF result.ok THEN [kind |-> "none"] ELSE @,
                            !.lock = 0,
                            !.op = [name |-> "none"]]
    /\ OthersUnchanged("cf")

NextConfig == WriteFile \/ ConfigLock \/ ConfigSet \/ ConfigGet \/ ConfigReload

SpecConfig == InitConfig /\ [][NextConfig]_vars

\* C15: the active configuration is always valid: after construction and
\* after any sequence of reload_config and set calls validate_current_config
\* reports no errors, and a reload whose file fails validation is rejected
\* and leaves the previous configuration in place.
C15_ConfigAlwaysValid ==
    /\ Validator_validate(cf.config) = {}
    /\ (cf.returned.name = "reload" /\ ~cf.returned.ok) => cf.returned.kept

\* C16: set then get round-trips: a get(p) that follows a returned set(p, v),
\* with no other returned set and no successful reload in between, returns
\* v, whichever threads made the calls.
C16_SetThenGet ==
    (/\ cf.returned.name = "get"
     /\ cf.returned.since.kind = "set"
     /\ cf.returned.path = cf.returned.since.path) =>
        JsonEq(cf.returned.value, cf.returned.since.value)

\* a thread got the value another thread had set under a nested path
C16_GotFromOtherThread ==
    /\ cf.returned.name = "get"
    /\ cf.returned.since.kind = "set"
    /\ cf.returned.path = cf.returned.since.path
    /\ cf.returned.by # cf.returned.since.by
    /\ Len(Split(cf.returned.path, ".")) > 1

(***************************************************************************)
(* Health checks: BookmarkHealthChecker (advanced_features) and            *)
(* HealthChecker (placeholder_modules).                                    *)
(*                                                                         *)
(* An outcome is what the network does for one bookmark: a response with a *)
(* status code, a requests exception (timeout, connection error), or an    *)
(* exception of another class raised inside the worker.  A result is       *)
(* [url, status_code, status]; status_code 0 stands for None as well.      *)
(***************************************************************************)
MaxChecked == 3

HealthOutcomes ==
    {[kind |-> "response", status_code |-> 200],
     [kind |-> "response", status_code |-> 404],
     [kind |-> "request_exception"],
     [kind |-> "exception"]}

\* BookmarkHealthChecker._check_single_bookmark: only requests exceptions
\* are caught
Health_check_single_bookmark(bookmark, outcome) ==
    LET health(status_code, is_accessible) ==
            [raised |-> FALSE,
             result |-> [url |-> bookmark.url, status_code |-> status_code,
                         status |-> IF is_accessible THEN "accessible" ELSE "inaccessible"]]
    IN  IF bookmark.url = <<>> THEN health(0, FALSE)
        ELSE IF outcome.kind = "response"
        THEN health(outcome.status_code, outcome.status_code < 400)
        ELSE IF outcome.kind = "request_exception" THEN health(0, FALSE)
        ELSE [raised |-> TRUE, result |-> <<>>]

\* HealthChecker._check_single_bookmark with _is_valid_url and
\* _determine_health_status: every exception of the checks is caught
HealthChecker_check_single_bookmark(bookmark, outcome) ==
    LET check_result(status_code, status) ==
            [raised |-> FALSE,
             result |-> [url |-> bookmark.url, status_code |-> status_code, status |-> status]]
        is_valid_url ==
            /\ bookmark.url # <<>>
            /\ urlparse(bookmark.url).scheme \in {<<"h", "t", "t", "p">>, <<"h", "t", "t", "p", "s">>}
            /\ urlparse(bookmark.url).netloc # <<>>
        determine(status_code) ==
            IF 200 <= status_code /\ status_code < 300 THEN "healthy"
            ELSE IF 300 <= status_code /\ status_code < 400 THEN "warning"
            ELSE IF status_code \in {404, 410} THEN "error"
            ELSE IF 400 <= status_code /\ status_code < 500 THEN "warning"
            ELSE "error"
    IN  IF ~is_valid_url THEN check_result(0, "error")
        ELSE IF outcome.kind = "response"
        THEN check_result(outcome.status_code, determine(outcome.status_code))
        ELSE check_result(0, "error")

\* the checker's _check_single_bookmark
Health_checked(which, bookmark, outcome) ==
    IF which = "advanced" THEN Health_check_single_bookmark(bookmark, outcome)
    ELSE HealthChecker_check_single_bookmark(bookmark, outcome)

\* a collecting loop that logs the exception of a future and goes on
Health_collect_logging(results, bookmark, done) ==
    IF done.raised THEN results ELSE Append(results, done.result)

\* the body of the collecting loops of check_bookmarks,
\* _check_bookmarks_parallel and _check_bookmarks_sequential: the result of
\* the future, or an error result built from its bookmark when it raised
Health_collect(results, bookmark, done) ==
    IF done.raised
    THEN Append(results, [url |-> bookmark.url, status_code |-> 0, status |-> "error"])
    ELSE Append(results, done.result)

(***************************************************************************)
(* SpecHealth: one call of check_bookmarks.  The futures are submitted in  *)
(* the order of the bookmarks and started in that order by at most         *)
(* max_workers workers; as_completed hands the finished futures to the     *)
(* calling thread in any order.                                            *)
(***************************************************************************)
HealthPool ==
    {[url |-> <<>>, title |-> <<"E">>],
     [url |-> <<"f", "t", "p", ":", "/", "/", "a", ".", "c", "o", "/">>, title |-> <<"F">>],
     [url |-> <<"h", "t", "t", "p", ":", "/", "/", "a", ".", "c", "o", "/">>, title |-> <<"H">>]}

InitHealth ==
    /\ \E which \in {"advanced", "parallel", "sequential"}, n \in 0..MaxChecked :
          \E bookmarks \in [1..n -> HealthPool], max_workers \in {1, MaxWorkers} :
              hc = [which       |-> which,
                    bookmarks   |-> bookmarks,
                    max_workers |-> IF which = "sequential" THEN 1 ELSE max_workers,
                    futures     |-> [i \in 1..n |-> [st |-> "queued"]],
                    results     |-> <<>>,
                    pc          |-> "checking"]
    /\ OthersIdle("hc")

\* a worker of the pool takes the next future of the queue
HealthStart ==
    /\ hc.which # "sequential"
    /\ hc.pc = "checking"
    /\ Cardinality({i \in 1..Len(hc.futures) : hc.futures[i].st = "running"}) < hc.max_workers
    /\ \E i \in 1..Len(hc.futures) :
          /\ hc.futures[i].st = "queued"
          /\ \A j \in 1..(i - 1) : hc.futures[j].st # "queued"
          /\ hc' = [hc EXCEPT !.futures[i] = [st |-> "running"]]
    /\ OthersUnchanged("hc")

\* _check_single_bookmark returns or raises in its worker
HealthFinish ==
    /\ hc.pc = "checking"
    /\ \E i \in 1..Len(hc.futures), outcome \in HealthOutcomes :
          /\ hc.futures[i].st = "running"
          /\ hc' = [hc EXCEPT !.futures[i] =
                       [st |-> "done",
                        done |-> Health_checked(hc.which, hc.bookmarks[i], outcome)]]
    /\ OthersUnchanged("hc")

\* one turn of `for future in as_completed(future_to_bookmark)`
HealthCollect ==
    /\ hc.pc = "checking"
    /\ \E i \in 1..Len(hc.futures) :
          /\ hc.futures[i].st = "done"
          /\ hc' = [hc EXCEPT !.futures[i] = [st |-> "collected"],
                              !.results = Health_collect(@, hc.bookmarks[i],
                                                         hc.futures[i].done)]
    /\ OthersUnchanged("hc")

\* one turn of the loop of _check_bookmarks_sequential
HealthSequential ==
    /\ hc.which = "sequential"
    /\ hc.pc = "checking"
    /\ \E i \in 1..Len(hc.futures), outcome \in HealthOutcomes :
          /\ hc.futures[i].st = "queued"
          /\ \A j \in 1..(i - 1) : hc.futures[j].st # "queued"
          /\ hc' = [hc EXCEPT !.futures[i] = [st |-> "collected"],
                              !.results =
                                  Health_collect(@, hc.bookmarks[i],
                                                 Health_checked(hc.which, hc.bookmarks[i],
                                                                outcome))]
    /\ OthersUnchanged("hc")

\* check_bookmarks returns the results (HealthChecker.check_bookmarks
\* returns [] at once for no bookmarks)
HealthReturn ==
    /\ hc.pc = "checking"
    /\ \A i \in 1..Len(hc.futures) : hc.futures[i].st = "collected"
    /\ hc' = [hc EXCEPT !.pc = "returned"]
    /\ OthersUnchanged("hc")

NextHealth == HealthStart \/ HealthFinish \/ HealthCollect \/ HealthSequential \/ HealthReturn

SpecHealth == InitHealth /\ [][NextHealth]_vars

\* C17: a health check returns exactly one result per input bookmark: for
\* any outcome of the individual checks (response, HTTP error, timeout,
\* exception in a worker) the returned list is as long as the input, and
\* every URL has as many results as the input has bookmarks of that URL.
C17_OneResultPerBookmark ==
    LET urls(l) == {l[k].url : k \in 1..Len(l)}
        count(l, url) == Cardinality({k \in 1..Len(l) : l[k].url = url})
    IN  hc.pc = "returned" =>
            /\ Len(hc.results) = Len(hc.bookmarks)
            /\ \A url \in urls(hc.bookmarks) \cup urls(hc.results) :
                  count(hc.results, url) = count(hc.bookmarks, url)

\* a parallel check has returned in which a worker raised and the results
\* came in another order than the bookmarks
C17_WorkerRaised ==
    /\ hc.pc = "returned"
    /\ hc.which = "advanced"
    /\ Len(hc.bookmarks) = MaxChecked
    /\ \E k \in 1..Len(hc.results) :
          hc.results[k].status = "error" /\ hc.results[k].url # hc.bookmarks[k].url
    /\ \E k \in 1..Len(hc.results) : hc.results[k].status = "accessible"

(***************************************************************************)
(* agent/scripts/merge_bookmarks.py: merge_and_classify.                   *)
(*                                                                         *)
(* An input file is the list of bookmarks [title, href, path] that         *)
(* walk_bookmarks returns for it (the title is never empty: the parser     *)
(* takes the href for an empty one).  None is MergeNone.  The tree is the  *)
(* list of the appended bookmarks, each with the names of the folders from *)
(* its top folder down to the folder it was appended to.                   *)
(***************************************************************************)
MaxMerged == 2

MergeNone == <<"None">>

\* merge_bookmarks.TOP_CATS
TOP_CATS ==
    <<<<"u5DE5", "u4F5C">>,
      <<"A", "I", "u00B7", "u5927", "u6A21", "u578B">>,
      <<"u7F16", "u7A0B", "u8BED", "u8A00">>,
      <<"W", "e", "b", "u00B7", "u524D", "u7AEF">>,
      <<"D", "e", "v", "O", "p", "s", "u00B7", "u8FD0", "u7EF4">>,
      <<"u5F00", "u53D1", "u5DE5", "u5177">>,
      <<"A", "P", "I", "u00B7", "u5E73", "u53F0">>,
      <<"u5B66", "u4E60", "u4E0E", "C", "S", "u57FA", "u7840">>,
      <<"H", "o", "m", "e", "l", "a", "b", "u00B7", "u670D", "u52A1", "u5668">>,
      <<"u5F85", "u5206", "u7C7B">>>>

\* merge_bookmarks.HOST_HINTS_DEV
HOST_HINTS_DEV ==
    <<<<"g", "i", "t", "h", "u", "b", ".", "c", "o", "m">>,
      <<"g", "i", "t", "l", "a", "b", ".", "c", "o", "m">>,
      <<"h", "u", "g", "g", "i", "n", "g", "f", "a", "c", "e", ".", "c", "o">>,
      <<"o", "p", "e", "n", "a", "i", ".", "c", "o", "m">>,
      <<"m", "i", "s", "t", "r", "a", "l", ".", "a", "i">>,
      <<"q", "w", "e", "n", ".", "a", "i">>,
      <<"l", "a", "n", "g", "c", "h", "a", "i", "n">>,
      <<"g", "o", ".", "d", "e", "v">>,
      <<"d", "e", "v", "e", "l", "o", "p", "e", "r">>,
      <<"d", "e", "v">>,
      <<"d", "o", "c", "s">>,
      <<"d", "o", "c", "k", "e", "r">>,
      <<"k", "8", "s">>,
      <<"k", "u", "b", "e", "r", "n", "e", "t", "e", "s">>,
      <<"a", "l", "i", "y", "u", "n">>,
      <<"h", "u", "a", "w", "e", "i", "c", "l", "o", "u", "d">>,
      <<"c", "l", "o", "u", "d">>,
      <<"g", "r", "a", "f", "a", "n", "a">>,
      <<"p", "r", "o", "m", "e", "t", "h", "e", "u", "s">>,
      <<"k", "i", "b", "a", "n", "a">>,
      <<"e", "l", "a", "s", "t", "i", "c">>,
      <<"n", "o", "t", "e", "b", "o", "o", "k", "l", "m">>,
      <<"p", "e", "r", "p", "l", "e", "x", "i", "t", "y">>,
      <<"g", "e", "m", "i", "n", "i", ".", "g", "o", "o", "g", "l", "e", ".", "c", "o", "m">>,
      <<"d", "u", "c", "k", "d", "u", "c", "k", "g", "o">>>>

\* merge_bookmarks.KEY_AI
KEY_AI ==
    <<<<"a", "i">>,
      <<"u4EBA", "u5DE5", "u667A", "u80FD">>,
      <<"u5927", "u6A21", "u578B">>,
      <<"m", "l">>,
      <<"u673A", "u5668", "u5B66", "u4E60">>,
      <<"u6DF1", "u5EA6", "u5B66", "u4E60">>,
      <<"l", "l", "m">>,
      <<"c", "h", "a", "t">>,
      <<"g", "p", "t">>,
      <<"m", "i", "d", "j", "o", "u", "r", "n", "e", "y">>,
      <<"c", "o", "m", "f", "y", "u", "i">>,
      <<"d", "e", "e", "p", "s", "e", "e", "k">>,
      <<"p", "e", "r", "p", "l", "e", "x", "i", "t", "y">>,
      <<"g", "e", "m", "i", "n", "i">>,
      <<"n", "o", "v", "i", "x">>,
      <<"k", "i", "m", "i">>,
      <<"q", "w", "e", "n">>,
      <<"b", "a", "i", "c", "h", "u", "a", "n">>>>

\* merge_bookmarks.KEY_LANG_GO
KEY_LANG_GO ==
    <<<<" ", "g", "o", "l", "a", "n", "g">>,
      <<" ", "g", "o", " ">>,
      <<" ", "g", "i", "n", " ">>,
      <<" ", "g", "o", "r", "m">>,
      <<"g", "o", ".", "d", "e", "v">>>>

\* merge_bookmarks.KEY_LANG_CPP
KEY_LANG_CPP ==
    <<<<"c", "+", "+">>,
      <<"c", "p", "p">>,
      <<"c", "u", "d", "a">>,
      <<"l", "i", "n", "u", "x">>,
      <<"k", "e", "r", "n", "e", "l">>,
      <<"b", "o", "o", "t", "l", "i", "n">>>>

\* merge_bookmarks.KEY_LANG_RUST
KEY_LANG_RUST ==
    <<<<"r", "u", "s", "t">>,
      <<"r", "u", "s", "t", "-", "l", "a", "n", "g">>>>

\* merge_bookmarks.KEY_WEB
KEY_WEB ==
    <<<<"w", "e", "b">>,
      <<"f", "r", "o", "n", "t", "e", "n", "d">>,
      <<"j", "a", "v", "a", "s", "c", "r", "i", "p", "t">>,
      <<"t", "y", "p", "e", "s", "c", "r", "i", "p", "t">>,
      <<"v", "u", "e">>,
      <<"r", "e", "a", "c", "t">>,
      <<"c", "s", "s">>,
      <<"h", "t", "m", "l">>,
      <<"d", "j", "a", "n", "g", "o">>,
      <<"e", "c", "h", "a", "r", "t", "s">>,
      <<"g", "r", "i", "d">>>>

\* merge_bookmarks.KEY_DEVOPS
KEY_DEVOPS ==
    <<<<"d", "e", "v", "o", "p", "s">>,
      <<"d", "o", "c", "k", "e", "r">>,
      <<"k", "8", "s">>,
      <<"k", "u", "b", "e", "r", "n", "e", "t", "e", "s">>,
      <<"c", "i", "c", "d">>,
      <<"c", "i", "/", "c", "d">>,
      <<"t", "e", "a", "m", "c", "i", "t", "y">>,
      <<"c", "o", "v", "e", "r", "i", "t", "y">>,
      <<"j", "e", "n", "k", "i", "n", "s">>,
      <<"o", "b", "s", "e", "r", "v", "a", "b", "i", "l", "i", "t", "y">>,
      <<"p", "r", "o", "m", "q", "l">>,
      <<"g", "r", "a", "f", "a", "n", "a">>,
      <<"k", "i", "b", "a", "n", "a">>,
      <<"p", "r", "o", "m", "e", "t", "h", "e", "u", "s">>,
      <<"e", "l", "a", "s", "t", "i", "c">>>>

\* merge_bookmarks.KEY_TOOLS
KEY_TOOLS ==
    <<<<"i", "d", "e">>,
      <<"j", "e", "t", "b", "r", "a", "i", "n", "s">>,
      <<"v", "s", "c", "o", "d", "e">>,
      <<"t", "m", "u", "x">>,
      <<"w", "a", "r", "p">>,
      <<"y", "a", "z", "i">>,
      <<"c", "o", "d", "e", "r">>,
      <<"m", "a", "r", "s", "c", "o", "d", "e">>,
      <<"c", "o", "p", "i", "l", "o", "t">>,
      <<"n", "a", "v">>,
      <<"t", "r", "z", "s", "z">>,
      <<"x", "-", "c", "m", "d">>>>

\* merge_bookmarks.KEY_API
KEY_API ==
    <<<<"a", "p", "i">>,
      <<"s", "d", "k">>,
      <<"d", "o", "c", "s">>,
      <<"p", "l", "a", "t", "f", "o", "r", "m">>,
      <<"c", "o", "n", "s", "o", "l", "e">>>>

\* merge_bookmarks.KEY_CS
KEY_CS ==
    <<<<"t", "e", "a", "c", "h", "y", "o", "u", "r", "s", "e", "l", "f", "c", "s">>,
      <<"c", "s", "u81EA", "u5B66">>,
      <<"o", "c", "w", ".", "m", "i", "t", ".", "e", "d", "u">>,
      <<"a", "l", "g", "o", "r", "i", "t", "h", "m">>,
      <<"c", "s">>,
      <<"u8BA1", "u7B97", "u673A", "u79D1", "u5B66">>>>

\* merge_bookmarks.KEY_DPA
KEY_DPA ==
    <<<<"u8BBE", "u8BA1", "u6A21", "u5F0F">>,
      <<"a", "r", "c", "h", "i", "t", "e", "c", "t", "u", "r", "e">>,
      <<"d", "d", "d">>,
      <<"e", "v", "e", "n", "t">>,
      <<"p", "a", "t", "t", "e", "r", "n", "s">>,
      <<"u67B6", "u6784">>>>

\* merge_bookmarks.KEY_HOME
KEY_HOME ==
    <<<<"u", "n", "r", "a", "i", "d">>,
      <<"n", "a", "s">>,
      <<"h", "o", "m", "e", "l", "a", "b">>,
      <<"s", "e", "r", "v", "e", "r">>,
      <<"u670D", "u52A1", "u5668">>,
      <<"n", "e", "x", "t", "c", "l", "o", "u", "d">>,
      <<"s", "f", "t", "p">>,
      <<"s", "s", "h">>>>

\* merge_bookmarks.KEY_LANG
KEY_LANG ==
    <<<<"u8BED", "u8A00">>,
      <<"u7FFB", "u8BD1">>,
      <<"t", "r", "a", "n", "s", "l", "a", "t", "i", "o", "n">>,
      <<"d", "i", "c", "t", "i", "o", "n", "a", "r", "y">>,
      <<"e", "n", "g", "l", "i", "s", "h">>,
      <<"u82F1", "u8BED">>,
      <<"u6C49", "u82F1">>,
      <<"u82F1", "u6C49">>>>

\* merge_bookmarks.KEY_SCI
KEY_SCI ==
    <<<<"p", "h", "y", "s", "i", "c", "s">>,
      <<"c", "h", "e", "m", "i", "s", "t", "r", "y">>,
      <<"b", "i", "o", "l", "o", "g", "y">>,
      <<"g", "e", "n", "o", "m", "i", "c", "s">>,
      <<"m", "a", "t", "h">>,
      <<"u6570", "u5B66">>,
      <<"u7269", "u7406">>,
      <<"u5316", "u5B66">>,
      <<"u751F", "u7269">>>>

\* merge_bookmarks.KEY_ART
KEY_ART ==
    <<<<"u827A", "u672F">>,
      <<"m", "u", "s", "i", "c">>,
      <<"u6444", "u5F71">>,
      <<"u8BBE", "u8BA1">>,
      <<"u7ED8", "u753B">>,
      <<"u56FE", "u50CF", "u98CE", "u683C">>,
      <<"g", "h", "i", "b", "l", "i">>>>

\* merge_bookmarks.KEY_SOC
KEY_SOC ==
    <<<<"u7ECF", "u6D4E">>,
      <<"f", "i", "n", "a", "n", "c", "e">>,
      <<"m", "a", "r", "k", "e", "t", "i", "n", "g">>,
      <<"u7BA1", "u7406">>,
      <<"u793E", "u4F1A">>>>

\* merge_bookmarks.KEY_LIT
KEY_LIT ==
    <<<<"u9605", "u8BFB">>,
      <<"u8BFB", "u4E66">>,
      <<"u5C0F", "u8BF4">>,
      <<"u6587", "u5B66">>,
      <<"p", "o", "e", "t", "r", "y">>>>

\* merge_bookmarks.KEY_HIS
KEY_HIS ==
    <<<<"u5386", "u53F2">>,
      <<"h", "i", "s", "t", "o", "r", "y">>,
      <<"u5730", "u7406">>,
      <<"m", "a", "p">>>>

\* merge_bookmarks.KEY_REL
KEY_REL ==
    <<<<"u5B97", "u6559">>,
      <<"b", "i", "b", "l", "e">>,
      <<"u4F5B">>,
      <<"u9053">>,
      <<"u57FA", "u7763">>>>

\* merge_bookmarks.KEY_PSY
KEY_PSY ==
    <<<<"u5FC3", "u7406">>,
      <<"u54F2", "u5B66">>,
      <<"p", "h", "i", "l", "o", "s", "o", "p", "h", "y">>,
      <<"p", "s", "y", "c", "h", "o", "l", "o", "g", "y">>>>

\* any(k in text for k in keys)
AnyIn(keys, text) == \E i \in 1..Len(keys) : Contains(text, keys[i])

\* text = f"{title} {url} {'/'.join(path)}".lower()
Merge_text(title, url, path) ==
    Lower(title \o <<" ">> \o url \o <<" ">> \o Join(path, <<"/">>))

\* merge_bookmarks.classify_top
Merge_classify_top(title, url, path) ==
    LET top(text) ==
        IF Contains(text, <<"z", "e", "g", "o">>) THEN TOP_CATS[1]
        ELSE IF Contains(text, <<"b", "g", "i">>) \/ Contains(text, <<"g", "e", "n", "o", "m", "i", "c", "s">>)
        THEN TOP_CATS[1]
        ELSE IF AnyIn(KEY_AI, text) THEN TOP_CATS[2]
        ELSE IF AnyIn(KEY_LANG_GO \o KEY_LANG_CPP \o KEY_LANG_RUST, text) THEN TOP_CATS[3]
        ELSE IF AnyIn(KEY_WEB, text) THEN TOP_CATS[4]
        ELSE IF AnyIn(KEY_DEVOPS, text) THEN TOP_CATS[5]
        ELSE IF AnyIn(KEY_TOOLS, text) THEN TOP_CATS[6]
        ELSE IF AnyIn(KEY_API, text) THEN TOP_CATS[7]
        ELSE IF AnyIn(KEY_CS \o KEY_DPA \o KEY_LANG \o KEY_SCI \o KEY_ART \o KEY_SOC
                        \o KEY_LIT \o KEY_HIS \o KEY_REL \o KEY_PSY, text)
        THEN TOP_CATS[8]
        ELSE IF AnyIn(KEY_HOME, text) THEN TOP_CATS[9]
        ELSE IF AnyIn(HOST_HINTS_DEV, text) THEN TOP_CATS[6]
        ELSE TOP_CATS[10]
    IN  top(Merge_text(title, url, path))

\* merge_bookmarks.classify_sub: (second, third)
Merge_classify_sub(title, url, path) ==
    LET sub(text) ==
        IF Contains(text, <<"z", "e", "g", "o">>) THEN <<TOP_CATS[1], <<"Z", "E", "G", "O">>>>
        ELSE IF Contains(text, <<"b", "g", "i">>) \/ Contains(text, <<"g", "e", "n", "o", "m", "i", "c", "s">>)
        THEN <<TOP_CATS[1], <<"B", "G", "I">>>>
        ELSE IF AnyIn(KEY_LANG_GO, text) THEN <<TOP_CATS[3], <<"G", "o">>>>
        ELSE IF AnyIn(KEY_LANG_CPP, text) THEN <<TOP_CATS[3], <<"C", "+", "+",
                                                        "u00B7", "u7CFB",
                                                        "u7EDF">>>>
        ELSE IF AnyIn(KEY_LANG_RUST, text) THEN <<TOP_CATS[3], <<"R", "u", "s", "t">>>>
        ELSE IF AnyIn(KEY_WEB, text) THEN <<TOP_CATS[4], MergeNone>>
        ELSE IF AnyIn(KEY_DEVOPS, text) THEN <<TOP_CATS[5], MergeNone>>
        ELSE IF AnyIn(KEY_TOOLS, text) THEN <<TOP_CATS[6], MergeNone>>
        ELSE IF AnyIn(KEY_API, text) THEN <<TOP_CATS[7], MergeNone>>
        ELSE IF AnyIn(KEY_AI, text) THEN <<TOP_CATS[2], MergeNone>>
        ELSE IF AnyIn(KEY_HOME, text) THEN <<TOP_CATS[9], MergeNone>>
        ELSE IF AnyIn(KEY_CS \o KEY_DPA \o KEY_LANG \o KEY_SCI \o KEY_ART \o KEY_SOC
                        \o KEY_LIT \o KEY_HIS \o KEY_REL \o KEY_PSY, text)
        THEN <<TOP_CATS[8], MergeNone>>
        ELSE <<TOP_CATS[10], MergeNone>>
    IN  sub(Merge_text(title, url, path))

\* urlsplit(url).hostname or '': the netloc without user and port, lowered
\* (no modelled host is an IPv6 address)
Merge_host(url) ==
    LET cut(hostport, colon) ==
            Lower(IF colon > 0 THEN SubSeq(hostport, 1, colon - 1) ELSE hostport)
        host(hostport) == cut(hostport, Find(hostport, ":", 1))
        of(netloc) == host(From(netloc, RFind(netloc, "@") + 1))
    IN  of(urlsplit(url).netloc)

\* merge_bookmarks.apply_rule_for_url: (top, second) of the first rule that
\* matches; the rules are the items of the two dicts, [key, top, second]
Merge_apply_rule_for_url(title, url, path, domain_rules, keyword_rules) ==
    LET first(rules, hits) == <<rules[SetMin(hits)].top, rules[SetMin(hits)].second>>
        rule(domain_hits, keyword_hits) ==
            IF domain_hits # {} THEN first(domain_rules, domain_hits)
            ELSE IF keyword_hits # {} THEN first(keyword_rules, keyword_hits)
            ELSE <<MergeNone, MergeNone>>
        hits(host, text) ==
            rule({i \in 1..Len(domain_rules) :
                     \/ EndsWith(host, Lower(domain_rules[i].key))
                     \/ /\ domain_rules[i].key # <<>>
                        /\ Contains(host, Lower(domain_rules[i].key))},
                 {i \in 1..Len(keyword_rules) : Contains(text, Lower(keyword_rules[i].key))})
    IN  hits(Merge_host(url), Merge_text(title, url, path))

\* the deduplication of merge_and_classify: the first bookmark of every
\* normalised URL, with the longest title of its duplicates (the first of
\* the longest)
RECURSIVE Merge_dedup(_, _)
Merge_dedup(all_bms, dedup) ==
    LET seen(bm, k) ==
            IF Len(bm.title) > Len(dedup[k].title)
            THEN [dedup EXCEPT ![k].title = bm.title] ELSE dedup
        found(bm, key, at) ==
            IF at = {}
            THEN Append(dedup, [title |-> bm.title, href |-> key, path |-> bm.path])
            ELSE seen(bm, CHOOSE k \in at : TRUE)
        add(bm, key) == found(bm, key, {k \in 1..Len(dedup) : dedup[k].href = key})
    IN  IF all_bms = <<>> THEN dedup
        ELSE Merge_dedup(Tail(all_bms), add(all_bms[1], normalize_url(all_bms[1].href)))

\* merge_bookmarks.is_private_url
Merge_is_private_url(url) ==
    LET digits(s) == s # <<>> /\ \A i \in 1..Len(s) : CodePoint[s[i]] \in 48..57
        RECURSIVE int_of(_)
        int_of(s) ==
            IF s = <<>> THEN 0
            ELSE 10 * int_of(SubSeq(s, 1, Len(s) - 1)) + (CodePoint[s[Len(s)]] - 48)
        private(host, segs, scheme) ==
            \/ StartsWith(host, <<"1", "0", ".">>)
            \/ StartsWith(host, <<"1", "9", "2", ".", "1", "6", "8", ".">>)
            \/ /\ StartsWith(host, <<"1", "7", "2", ".">>)
               /\ Len(segs) >= 2
               /\ digits(segs[2])
               /\ 16 <= int_of(segs[2]) /\ int_of(segs[2]) <= 31
            \/ scheme \in {<<"c", "h", "r", "o", "m", "e", "-", "e", "x", "t",
                          "e", "n", "s", "i", "o", "n">>, <<"f", "i", "l", "e">>, <<"d", "a", "t", "a">>}
        of(host, scheme) == private(host, Split(host, "."), scheme)
    IN  of(Merge_host(url), urlsplit(url).scheme)

\* the bookmarks whose titles merge_and_classify fetches
Merge_targets(after, fetch_mode, fetch_limit) ==
    LET uncertain(bm) == Merge_classify_top(bm.title, bm.href, bm.path) = TOP_CATS[10]
        limited(targets) ==
            IF fetch_limit # 0 /\ fetch_limit < Len(targets)
            THEN SubSeq(targets, 1, fetch_limit) ELSE targets
    IN  limited(IF fetch_mode = "uncertain" THEN SelectSeq(after, uncertain)
                ELSE IF fetch_mode = "all" THEN after
                ELSE <<>>)

\* one turn of the classification loop of merge_and_classify: top_name, which
\* goes to used_names, and the folders of target_parent (second replaces the
\* top folder when it is a top category itself)
Merge_place(bm, domain_rules, keyword_rules) ==
    LET in_top(name) == \E i \in 1..Len(TOP_CATS) : TOP_CATS[i] = name
        falsy(s) == s \in {MergeNone, <<>>}
        under(top_name, parent, third) ==
            [top_name |-> top_name,
             folders  |-> IF falsy(third) THEN parent ELSE Append(parent, third)]
        target(top_name, second, third) ==
            under(top_name,
                  IF falsy(second) THEN <<top_name>>
                  ELSE IF in_top(second) THEN <<second>>
                  ELSE <<top_name, second>>,
                  third)
        named(rtop, rsecond, top, sub) ==
            target(IF falsy(rtop) THEN top ELSE rtop,
                   IF falsy(rsecond) THEN sub[1] ELSE rsecond,
                   sub[2])
        place(rule, top, sub) ==
            named(IF rule[1] # MergeNone /\ ~in_top(rule[1]) THEN TOP_CATS[10] ELSE rule[1],
                  rule[2], top, sub)
    IN  place(Merge_apply_rule_for_url(bm.title, bm.href, bm.path, domain_rules,
                                       keyword_rules),
              Merge_classify_top(bm.title, bm.href, bm.path),
              Merge_classify_sub(bm.title, bm.href, bm.path))

\* write_netscape_html(ordered, output_path) with render: the hrefs of the
\* <A> lines of the written file, the top folders that are in used_names in
\* the order of TOP_CATS
Merge_write_netscape_html(tree, used_names) ==
    LET RECURSIVE render(_)
        render(i) ==
            IF i > Len(TOP_CATS) THEN <<>>
            ELSE (IF TOP_CATS[i] \in used_names
                  THEN LET inside(item) == item.folders[1] = TOP_CATS[i]
                           items == SelectSeq(tree, inside)
                       IN  [k \in 1..Len(items) |-> items[k].href]
                  ELSE <<>>)
                 \o render(i + 1)
    IN  render(1)

(***************************************************************************)
(* SpecMerge: one run of merge_and_classify on one or two input files,     *)
(* with the rules of the configuration directory and the titles that       *)
(* simple_fetch_title gets from the network.                               *)
(***************************************************************************)
MergePool ==
    {[title |-> <<"R", "u", "s", "t", " ", "A", "I">>, href |-> <<"h", "t", "t", "p", "s", ":", "/", "/", "e", ".", "c", "o",
                 "/", "x">>, path |-> <<>>],
     [title |-> <<"R", "u", "s", "t", " ", "b", "o", "o", "k">>, href |-> <<"h", "t", "t", "p", "s", ":", "/", "/", "b", ".", "o", "r",
                 "g", "/">>, path |-> <<>>],
     [title |-> <<"N", "e", "w", "s">>, href |-> <<"h", "t", "t", "p", ":", "/", "/", "w", "w", "w", ".", "n",
                 ".", "o", "r", "g", "/", "?", "u", "t", "m", "_", "s", "o",
                 "u", "r", "c", "e", "=", "x">>,
      path |-> <<>>],
     [title |-> <<"N", "e", "w", "s", " ", "t", "o", "d", "a", "y">>, href |-> <<"h", "t", "t", "p", ":", "/", "/", "n", ".", "o", "r", "g",
                 "/">>, path |-> <<>>],
     [title |-> <<"z", "e", "g", "o">>, href |-> <<"h", "t", "t", "p", "s", ":", "/", "/", "z", ".", "i", "o",
                 "/">>,
      path |-> <<<<"W", "o", "r", "k">>>>]}

\* domain_rules.json and keyword_rules.json: no rules, a domain rule with a
\* folder of its own, a keyword rule whose top is no top category and whose
\* second is one
MergeRules ==
    {[domain_rules |-> <<>>, keyword_rules |-> <<>>],
     [domain_rules |-> <<[key |-> <<"n", ".", "o", "r", "g">>, top |-> TOP_CATS[1],
                          second |-> <<"D", "o", "c", "s">>]>>,
      keyword_rules |-> <<>>],
     [domain_rules |-> <<>>,
      keyword_rules |-> <<[key |-> <<"n", "e", "w", "s">>, top |-> <<"N", "o", "p", "e">>,
                           second |-> TOP_CATS[6]]>>]}

\* what simple_fetch_title returns: '' or the title of the page
MergeFetched == {<<>>, <<"R", "u", "s", "t", " ", "M", "L">>}

MergeFiles(n) == UNION {[1..k -> MergePool] : k \in 0..n}

InitMerge ==
    /\ \E first \in MergeFiles(MaxMerged), more \in {<<>>} \cup {<<f>> : f \in MergeFiles(1)},
          rules \in MergeRules, fetch_mode \in {"none", "uncertain", "all"},
          fetch_limit \in {0, 1} :
              mg = [inputs       |-> <<first>> \o more,
                    rules        |-> rules,
                    fetch_mode   |-> fetch_mode,
                    fetch_limit  |-> fetch_limit,
                    after        |-> <<>>,
                    used_names   |-> {},
                    tree         |-> <<>>,
                    written      |-> <<>>,
                    output_total |-> 0,
                    pc           |-> "read"]
    /\ OthersIdle("mg")

\* the input files are read and their bookmarks deduplicated
MergeDedup ==
    /\ mg.pc = "read"
    /\ LET RECURSIVE all_bms(_)
           all_bms(inputs) ==
               IF inputs = <<>> THEN <<>> ELSE inputs[1] \o all_bms(Tail(inputs))
       IN  mg' = [mg EXCEPT !.after = Merge_dedup(all_bms(mg.inputs), <<>>),
                            !.pc = "fetch"]
    /\ OthersUnchanged("mg")

\* the titles of the targets are fetched: a non-empty fetched title replaces
\* the title; nothing is fetched for a private URL
MergeFetch ==
    /\ mg.pc = "fetch"
    /\ LET fetched(targets) ==
               {t \in [1..Len(mg.after) -> MergeFetched] :
                   \A k \in 1..Len(mg.after) :
                       (\/ \A j \in 1..Len(targets) : targets[j] # mg.after[k]
                        \/ Merge_is_private_url(mg.after[k].href)) => t[k] = <<>>}
       IN  \E t \in fetched(Merge_targets(mg.after, mg.fetch_mode, mg.fetch_limit)) :
              mg' = [mg EXCEPT !.after = [k \in 1..Len(mg.after) |->
                                                IF t[k] = <<>> THEN mg.after[k]
                                                ELSE [mg.after[k] EXCEPT !.title = t[k]]],
                                  !.pc = "classify"]
    /\ OthersUnchanged("mg")

\* the bookmarks are appended to their folders, the used top folders are
\* written and the totals returned
MergeClassify ==
    /\ mg.pc = "classify"
    /\ LET done(tree, used_names) ==
               [mg EXCEPT !.tree = tree,
                          !.used_names = used_names,
                          !.written = Merge_write_netscape_html(tree, used_names),
                          !.output_total = Len(mg.after),
                          !.pc = "done"]
           placed(places) ==
               done([k \in 1..Len(mg.after) |->
                        [href |-> mg.after[k].href, folders |-> places[k].folders]],
                    {places[k].top_name : k \in 1..Len(mg.after)})
       IN  mg' = placed([k \in 1..Len(mg.after) |->
                            Merge_place(mg.after[k], mg.rules.domain_rules,
                                        mg.rules.keyword_rules)])
    /\ OthersUnchanged("mg")

NextMerge == MergeDedup \/ MergeFetch \/ MergeClassify

SpecMerge == InitMerge /\ [][NextMerge]_vars

\* C18: merge_and_classify writes every deduplicated bookmark exactly once:
\* the URLs in the written file are the URLs of the bookmarks kept after the
\* deduplication, and their number is the reported output_total.
C18_WritesEveryBookmarkOnce ==
    mg.pc = "done" =>
        /\ {mg.written[k] : k \in 1..Len(mg.written)}
              = {mg.after[k].href : k \in 1..Len(mg.after)}
        /\ Len(mg.written) = mg.output_total


(***************************************************************************)
(* EnhancedBookmarkProcessor.process_bookmarks (enhanced_clean_tidy): one  *)
(* future per loaded bookmark runs _process_single_bookmark on a pool of   *)
(* max_workers threads.  duplicate_hashes is shared by the workers and is  *)
(* read and written without a lock (seen_urls_lock is created and never    *)
(* taken), so the membership test and the add of _is_duplicate are two     *)
(* steps of a worker; the counters of stats are updated under stats_lock.  *)
(***************************************************************************)
MaxProcessed == 3

\* _normalize_title with the title_cleaning_rules of the default
\* configuration (none); html.unescape leaves a title without '&' as it is
Enhanced_normalize_title(title) == IF title = <<>> THEN <<>> ELSE Strip(title)

\* _generate_content_hash: the MD5 digest of the content is stood for by the
\* content, as equal contents and only those have equal digests here
Enhanced_generate_content_hash(url, title) ==
    Enhanced_normalize_url(url) \o <<":", ":">> \o Enhanced_normalize_title(title)

ProcessPool ==
    {[url |-> <<"h", "t", "t", "p", ":", "/", "/", "a", ".", "c", "o", "/">>, title |-> <<"A">>],
     [url |-> <<"h", "t", "t", "p", ":", "/", "/", "w", "w", "w", ".", "a",
                ".", "c", "o">>, title |-> <<"A", " ">>],
     [url |-> <<"h", "t", "t", "p", ":", "/", "/", "b", ".", "c", "o", "/">>, title |-> <<"B">>]}

InitProcess ==
    /\ \E n \in 0..MaxProcessed :
          \E all_bookmarks \in [1..n -> ProcessPool], max_workers \in {1, MaxWorkers} :
              pb = [all_bookmarks       |-> all_bookmarks,
                    max_workers         |-> max_workers,
                    futures             |-> [i \in 1..n |-> [st |-> "queued"]],
                    duplicate_hashes    |-> {},
                    stats               |-> [duplicates_removed |-> 0,
                                             processed_bookmarks |-> 0],
                    processed_bookmarks |-> <<>>,
                    pc                  |-> "processing"]
    /\ OthersIdle("pb")

\* a thread of the pool takes the next future of the queue
ProcessStart ==
    /\ pb.pc = "processing"
    /\ Cardinality({i \in 1..Len(pb.futures) :
                        pb.futures[i].st \in {"running", "absent", "duplicate", "classify"}})
           < pb.max_workers
    /\ \E i \in 1..Len(pb.futures) :
          /\ pb.futures[i].st = "queued"
          /\ \A j \in 1..(i - 1) : pb.futures[j].st # "queued"
          /\ pb' = [pb EXCEPT !.futures[i] = [st |-> "running"]]
    /\ OthersUnchanged("pb")

\* _is_duplicate up to `if content_hash in self.duplicate_hashes`
Process_is_duplicate(duplicate_hashes, content_hash) ==
    IF content_hash \in duplicate_hashes THEN [st |-> "duplicate"]
    ELSE [st |-> "absent", content_hash |-> content_hash]

ProcessIsDuplicate ==
    /\ pb.pc = "processing"
    /\ \E i \in 1..Len(pb.futures) :
          /\ pb.futures[i].st = "running"
          /\ pb' = [pb EXCEPT !.futures[i] =
                       Process_is_duplicate(pb.duplicate_hashes,
                           Enhanced_generate_content_hash(pb.all_bookmarks[i].url,
                                                          pb.all_bookmarks[i].title))]
    /\ OthersUnchanged("pb")

\* _is_duplicate: self.duplicate_hashes.add(content_hash); return False
ProcessAdd ==
    /\ pb.pc = "processing"
    /\ \E i \in 1..Len(pb.futures) :
          /\ pb.futures[i].st = "absent"
          /\ pb' = [pb EXCEPT !.duplicate_hashes = @ \cup {pb.futures[i].content_hash},
                              !.futures[i] = [st |-> "classify"]]
    /\ OthersUnchanged("pb")

\* _process_single_bookmark after _is_duplicate returned True
ProcessDuplicate ==
    /\ pb.pc = "processing"
    /\ \E i \in 1..Len(pb.futures) :
          /\ pb.futures[i].st = "duplicate"
          /\ pb' = [pb EXCEPT !.stats.duplicates_removed = @ + 1,
                              !.futures[i] = [st |-> "done", result |-> <<>>]]
    /\ OthersUnchanged("pb")

\* _process_single_bookmark after _is_duplicate returned False: classify
\* returns a result for every bookmark (it catches its own exceptions), and
\* the processed bookmark keeps the url and the title of the bookmark
ProcessClassify ==
    /\ pb.pc = "processing"
    /\ \E i \in 1..Len(pb.futures) :
          /\ pb.futures[i].st = "classify"
          /\ pb' = [pb EXCEPT !.stats.processed_bookmarks = @ + 1,
                              !.futures[i] = [st |-> "done",
                                              result |-> <<pb.all_bookmarks[i]>>]]
    /\ OthersUnchanged("pb")

\* one turn of `for future in as_completed(future_to_bookmark)`
ProcessCollect ==
    /\ pb.pc = "processing"
    /\ \E i \in 1..Len(pb.futures) :
          /\ pb.futures[i].st = "done"
          /\ pb' = [pb EXCEPT !.processed_bookmarks = @ \o pb.futures[i].result,
                              !.futures[i] = [st |-> "collected"]]
    /\ OthersUnchanged("pb")

\* process_bookmarks returns processed_bookmarks ([] without bookmarks)
ProcessReturn ==
    /\ pb.pc = "processing"
    /\ \A i \in 1..Len(pb.futures) : pb.futures[i].st = "collected"
    /\ pb' = [pb EXCEPT !.pc = "returned"]
    /\ OthersUnchanged("pb")

NextProcess ==
    \/ ProcessStart
    \/ ProcessIsDuplicate
    \/ ProcessAdd
    \/ ProcessDuplicate
    \/ ProcessClassify
    \/ ProcessCollect
    \/ ProcessReturn

SpecProcess == InitProcess /\ [][NextProcess]_vars

Process_hashes(bookmarks) ==
    [k \in 1..Len(bookmarks) |->
        Enhanced_generate_content_hash(bookmarks[k].url, bookmarks[k].title)]

Process_kept_once(input_hashes, kept_hashes, duplicates_removed) ==
    /\ \A i \in 1..Len(input_hashes) :
          Cardinality({k \in 1..Len(kept_hashes) : kept_hashes[k] = input_hashes[i]}) = 1
    /\ duplicates_removed
           = Len(input_hashes) - Cardinality({input_hashes[i] : i \in 1..Len(input_hashes)})

\* C19: duplicate detection of EnhancedBookmarkProcessor is thread-safe:
\* when process_bookmarks has returned, whatever the interleaving of its
\* workers was, exactly one of the input bookmarks of each content hash is
\* in the result and every other one was counted in duplicates_removed
C19_OneKeptPerHash ==
    pb.pc = "returned" =>
        Process_kept_once(Process_hashes(pb.all_bookmarks),
                          Process_hashes(pb.processed_bookmarks),
                          pb.stats.duplicates_removed)


(***************************************************************************)
(* Learning from feedback: one classifier (EnhancedClassifier or           *)
(* AIBookmarkClassifier) serves classify and learn_from_feedback calls.    *)
(* classification_cache is the sequence of <<key, entry>> pairs; an entry  *)
(* holds the cached result and, as a history field, the number of          *)
(* feedbacks learned before it was stored.  The key is "url::title" (its   *)
(* MD5 digest in AIBookmarkClassifier, stood for by the text).  Neither    *)
(* cache reaches its size limit here.                                      *)
(***************************************************************************)
MaxFeedbackCalls == 2

Feedback_cache_key(bookmark) == bookmark.url \o <<":", ":">> \o bookmark.title

\* d[key] = value
DictSet(d, key, value) ==
    IF \E k \in 1..Len(d) : d[k][1] = key
    THEN <<>> \o [k \in 1..Len(d) |-> IF d[k][1] = key THEN <<key, value>> ELSE d[k]]
    ELSE Append(d, <<key, value>>)

\* d[key] of a defaultdict whose missing value is default
DictGet(d, key, default) ==
    IF \E k \in 1..Len(d) : d[k][1] = key
    THEN d[CHOOSE k \in 1..Len(d) : d[k][1] = key][2]
    ELSE default

\* EnhancedClassifier.learn_from_feedback at the time now, with the default
\* learning_rate 0.1 and without a machine-learning classifier: the
\* learning state after it.  The classification cache is not touched.
Enhanced_learn_from_feedback(learning, features, correct_category, predicted_category, now) ==
    LET learning_rate == <<1, 10>>
        punished == DictAdd(learning.learning_weights, features.domain,
                            FMul(<<-1, 1>>, learning_rate))
        rewarded == DictAdd(punished, features.domain, FMul(learning_rate, <<2, 1>>))
        reinforced == DictAdd(learning.learning_weights, features.domain,
                              FMul(learning_rate, <<1, 2>>))
        timestamps == Append(DictGet(learning.temporal_patterns, correct_category, <<>>), now)
    IN  [learning_weights  |-> IF predicted_category # correct_category
                               THEN rewarded ELSE reinforced,
         category_patterns |->
             IF predicted_category # correct_category
             THEN DictSet(learning.category_patterns, correct_category,
                          DictGet(learning.category_patterns, correct_category, {})
                              \cup {features.domain})
             ELSE learning.category_patterns,
         temporal_patterns |->
             DictSet(learning.temporal_patterns, correct_category,
                     IF Len(timestamps) > 100
                     THEN SubSeq(timestamps, Len(timestamps) - 99, Len(timestamps))
                     ELSE timestamps)]

\* AIBookmarkClassifier.learn_from_feedback on the cache: the entry of the
\* key is deleted
AI_learn_from_feedback(classification_cache, cache_key) ==
    SelectSeq(classification_cache, LAMBDA e : e[1] # cache_key)

\* what classify computes for the bookmark when the cache has no entry
Feedback_computed(f, bookmark) ==
    IF f.which = "enhanced"
    THEN Enhanced_classify(f.config, extract_features(bookmark), FALSE, f.now, f.learning)
    ELSE AI_classify(f.config, extract_features(bookmark), f.semantic, f.user,
                     [raised |-> FALSE, result |-> <<>>])

\* classify(url, title) of either classifier: the cached result of the key,
\* else the computed result, which is stored
Feedback_classify(f, bookmark, cache_key, computed) ==
    IF \E k \in 1..Len(f.classification_cache) : f.classification_cache[k][1] = cache_key
    THEN [f EXCEPT !.returned =
            [name |-> "classify", bookmark |-> bookmark, cached |-> TRUE,
             result |-> DictGet(f.classification_cache, cache_key, <<>>).result,
             stored |-> DictGet(f.classification_cache, cache_key, <<>>).stored]]
    ELSE [f EXCEPT !.classification_cache =
                        Append(@, <<cache_key, [result |-> computed,
                                                stored |-> Len(f.feedbacks)]>>),
                   !.returned =
                        [name |-> "classify", bookmark |-> bookmark, cached |-> FALSE,
                         result |-> computed, stored |-> Len(f.feedbacks)]]

FeedbackPool ==
    {b \in ClassifyPool : b.title \in {<<"H", "o", "w", " ", "t", "o", " ", "x">>, <<"F", "o", "o", " ", "b", "a", "r">>}}

InitFeedback ==
    /\ \E which \in {"enhanced", "ensemble"}, config \in Configs,
          learning \in LearningStates, semantic \in SemanticResults, user \in UserResults :
            /\ which = "enhanced" => semantic = <<>> /\ user = <<>>
            /\ which = "ensemble" => learning = [learning_weights |-> <<>>,
                                                category_patterns |-> <<>>,
                                                temporal_patterns |-> <<>>]
            /\ fb = [which |-> which, config |-> config, learning |-> learning,
                     semantic |-> semantic, user |-> user, now |-> 12,
                     classification_cache |-> <<>>, feedbacks |-> <<>>,
                     returned |-> [name |-> "none"]]
    /\ OthersIdle("fb")

\* classifier.classify(url, title)
FeedbackClassify ==
    /\ fb.which # "none"
    /\ \E bookmark \in FeedbackPool :
          fb' = Feedback_classify(fb, bookmark, Feedback_cache_key(bookmark),
                                  Feedback_computed(fb, bookmark))
    /\ OthersUnchanged("fb")

\* EnhancedClassifier.learn_from_feedback(url, title, correct_category,
\* predicted_category)
FeedbackLearnEnhanced ==
    /\ fb.which = "enhanced"
    /\ Len(fb.feedbacks) < MaxFeedbackCalls
    /\ \E bookmark \in FeedbackPool, correct_category \in {<<"A">>, <<"B">>},
          predicted_category \in {<<"A">>, <<"B">>} :
            fb' = [fb EXCEPT !.learning =
                                 Enhanced_learn_from_feedback(@, extract_features(bookmark),
                                     correct_category, predicted_category, fb.now),
                             !.feedbacks = Append(@, Feedback_cache_key(bookmark)),
                             !.returned = [name |-> "learn_from_feedback",
                                           bookmark |-> bookmark]]
    /\ OthersUnchanged("fb")

\* AIBookmarkClassifier.learn_from_feedback: update_preferences leaves the
\* user profiler with any of its answers for the bookmarks
FeedbackLearnEnsemble ==
    /\ fb.which = "ensemble"
    /\ Len(fb.feedbacks) < MaxFeedbackCalls
    /\ \E bookmark \in FeedbackPool, user \in UserResults :
            fb' = [fb EXCEPT !.user = user,
                             !.classification_cache =
                                 AI_learn_from_feedback(@, Feedback_cache_key(bookmark)),
                             !.feedbacks = Append(@, Feedback_cache_key(bookmark)),
                             !.returned = [name |-> "learn_from_feedback",
                                           bookmark |-> bookmark]]
    /\ OthersUnchanged("fb")

NextFeedback == FeedbackClassify \/ FeedbackLearnEnhanced \/ FeedbackLearnEnsemble

SpecFeedback == InitFeedback /\ [][NextFeedback]_vars

\* the answer was stored before a later feedback on its bookmark
Feedback_stale(feedbacks, cache_key, stored) ==
    \E j \in (stored + 1)..Len(feedbacks) : feedbacks[j] = cache_key

\* C20: feedback clears the related cache: after learn_from_feedback(url,
\* title, ...) has returned, classify(url, title) is never answered from a
\* cache entry stored before that feedback; the next classify of the
\* bookmark is computed anew from the learning state of the moment
C20_FeedbackClearsCache ==
    fb.returned.name = "classify" =>
        ~Feedback_stale(fb.feedbacks, Feedback_cache_key(fb.returned.bookmark),
                        fb.returned.stored)

\* an answer from the cache is the answer classify would compute
Feedback_cached_is_computed ==
    (fb.returned.name = "classify" /\ fb.returned.cached) =>
        fb.returned.result = Feedback_computed(fb, fb.returned.bookmark)

\* the same for AIBookmarkClassifier alone
Feedback_ensemble_clears == fb.which = "ensemble" => C20_FeedbackClearsCache


(***************************************************************************)
(* The lazily loaded classifier of BookmarkProcessor.  The workers of      *)
(* _classify_bookmarks_parallel reach the classifier property through      *)
(* _classify_single_bookmark_cached; the property tests _classifier,       *)
(* constructs an AIBookmarkClassifier and stores it, without a lock.  The  *)
(* classifiers constructed are numbered 1, 2, ...; 0 stands for None.  The *)
(* bookmarks are distinct, so the processor cache is never hit.            *)
(***************************************************************************)
MaxLazyTasks == 3

InitLazy ==
    /\ \E n \in 1..MaxLazyTasks, max_workers \in 1..MaxWorkers, loaded \in BOOLEAN :
          lz = [bookmarks   |-> [k \in 1..n |-> k],
                max_workers |-> max_workers,
                classifier  |-> IF loaded THEN 1 ELSE 0,
                constructed |-> IF loaded THEN 1 ELSE 0,
                tasks       |-> [k \in 1..n |-> [pc |-> "queued", classifier |-> 0]]]
    /\ OthersIdle("lz")

\* a free worker takes the next bookmark of the queue and runs
\* _classify_single_bookmark_cached up to self.classifier
LazySubmit ==
    /\ Cardinality({j \in 1..Len(lz.tasks) : lz.tasks[j].pc \notin {"queued", "returned"}})
            < lz.max_workers
    /\ \E k \in 1..Len(lz.tasks) :
          /\ lz.tasks[k].pc = "queued"
          /\ \A j \in 1..(k - 1) : lz.tasks[j].pc # "queued"
          /\ lz' = [lz EXCEPT !.tasks[k].pc = "property"]
    /\ OthersUnchanged("lz")

\* BookmarkProcessor.classifier: `if self._classifier is None`
LazyTest ==
    /\ \E k \in 1..Len(lz.tasks) :
          /\ lz.tasks[k].pc = "property"
          /\ lz' = [lz EXCEPT !.tasks[k].pc = IF lz.classifier = 0 THEN "construct"
                                              ELSE "return"]
    /\ OthersUnchanged("lz")

\* BookmarkProcessor.classifier:
\* `self._classifier = AIBookmarkClassifier(self.config_path, ...)`
LazyConstruct ==
    /\ \E k \in 1..Len(lz.tasks) :
          /\ lz.tasks[k].pc = "construct"
          /\ lz' = [lz EXCEPT !.constructed = @ + 1,
                              !.classifier = lz.constructed + 1,
                              !.tasks[k].pc = "return"]
    /\ OthersUnchanged("lz")

\* BookmarkProcessor.classifier: `return self._classifier`, and the worker
\* classifies its bookmark with the classifier returned
LazyClassify ==
    /\ \E k \in 1..Len(lz.tasks) :
          /\ lz.tasks[k].pc = "return"
          /\ lz' = [lz EXCEPT !.tasks[k] = [pc |-> "returned", classifier |-> lz.classifier]]
    /\ OthersUnchanged("lz")

NextLazy == LazySubmit \/ LazyTest \/ LazyConstruct \/ LazyClassify

SpecLazy == InitLazy /\ [][NextLazy]_vars

\* C21: the lazily loaded classifier is a singleton per BookmarkProcessor:
\* at most one AIBookmarkClassifier is ever constructed for a processor,
\* and all workers classify with that one instance, however their first
\* accesses to the property interleave
C21_OneClassifier ==
    /\ lz.constructed <= 1
    /\ \A j, k \in 1..Len(lz.tasks) :
          (lz.tasks[j].pc = "returned" /\ lz.tasks[k].pc = "returned") =>
              lz.tasks[j].classifier = lz.tasks[k].classifier


(***************************************************************************)
(* The size limits of the classification caches: the cache of              *)
(* BookmarkProcessor ("processor", limit 10000), of AIBookmarkClassifier   *)
(* ("ai", limit _max_cache_size) and of EnhancedClassifier ("enhanced",    *)
(* limit cache_size).  A cache is the sequence of its keys in insertion    *)
(* order; the limit of each is scaled to MaxCacheSize.  The workers        *)
(* classify bookmarks with keys of their own (task k has the key k), the   *)
(* cache starts with earlier keys, and none of the caches is guarded by a  *)
(* lock.                                                                   *)
(***************************************************************************)
MaxCacheSize == 2

MaxCacheTasks == 3

InitCaches ==
    /\ \E which \in {"processor", "ai", "enhanced"}, n \in 1..MaxCacheTasks,
          max_workers \in 1..MaxWorkers, held \in 0..MaxCacheSize :
          cc = [which                |-> which,
                max_workers          |-> max_workers,
                classification_cache |-> [i \in 1..held |-> 0 - i],
                tasks                |-> [k \in 1..n |-> [pc |-> "queued"]]]
    /\ OthersIdle("cc")

\* a free worker takes the next bookmark: its key is not in the cache, the
\* bookmark is classified
CacheMiss ==
    /\ Cardinality({j \in 1..Len(cc.tasks) : cc.tasks[j].pc \notin {"queued", "returned"}})
            < cc.max_workers
    /\ \E k \in 1..Len(cc.tasks) :
          /\ cc.tasks[k].pc = "queued"
          /\ \A j \in 1..(k - 1) : cc.tasks[j].pc # "queued"
          /\ cc' = [cc EXCEPT !.tasks[k].pc = "classified"]
    /\ OthersUnchanged("cc")

\* the test of the size: `len(cache) < limit` before the store of
\* BookmarkProcessor and EnhancedClassifier, `len(cache) >= _max_cache_size`
\* before the eviction of AIBookmarkClassifier._cache_result
Cache_test(which, classification_cache) ==
    IF which = "ai"
    THEN IF Len(classification_cache) >= MaxCacheSize THEN "evict" ELSE "store"
    ELSE IF Len(classification_cache) < MaxCacheSize THEN "store" ELSE "returned"

CacheTest ==
    /\ \E k \in 1..Len(cc.tasks) :
          /\ cc.tasks[k].pc = "classified"
          /\ cc' = [cc EXCEPT !.tasks[k].pc = Cache_test(cc.which, cc.classification_cache)]
    /\ OthersUnchanged("cc")

\* AIBookmarkClassifier._cache_result: oldest_key = next(iter(cache)), which
\* raises on an empty cache (the worker then returns None)
CacheOldest ==
    /\ \E k \in 1..Len(cc.tasks) :
          /\ cc.tasks[k].pc = "evict"
          /\ cc' = [cc EXCEPT !.tasks[k] =
                       IF cc.classification_cache = <<>> THEN [pc |-> "returned"]
                       ELSE [pc |-> "delete", oldest_key |-> cc.classification_cache[1]]]
    /\ OthersUnchanged("cc")

\* AIBookmarkClassifier._cache_result: del cache[oldest_key], a KeyError
\* when another worker deleted the key before
CacheDelete ==
    /\ \E k \in 1..Len(cc.tasks) :
          /\ cc.tasks[k].pc = "delete"
          /\ cc' = [cc EXCEPT !.classification_cache =
                                  SelectSeq(@, LAMBDA key : key # cc.tasks[k].oldest_key),
                              !.tasks[k] =
                                  IF \E i \in 1..Len(cc.classification_cache) :
                                        cc.classification_cache[i] = cc.tasks[k].oldest_key
                                  THEN [pc |-> "store"] ELSE [pc |-> "returned"]]
    /\ OthersUnchanged("cc")

\* cache[cache_key] = result
CacheStore ==
    /\ \E k \in 1..Len(cc.tasks) :
          /\ cc.tasks[k].pc = "store"
          /\ cc' = [cc EXCEPT !.classification_cache = Append(@, k),
                              !.tasks[k] = [pc |-> "returned"]]
    /\ OthersUnchanged("cc")

NextCaches == CacheMiss \/ CacheTest \/ CacheOldest \/ CacheDelete \/ CacheStore

SpecCaches == InitCaches /\ [][NextCaches]_vars

\* C22: the classification caches stay within their size limits: whatever
\* classify calls ran, one after another or concurrently in the worker
\* pool, each of the three caches holds at most as many entries as its limit
C22_CachesWithinLimits == Len(cc.classification_cache) <= MaxCacheSize

\* the same for calls that run one after another
Cache_sequential_within_limits == cc.max_workers = 1 => C22_CachesWithinLimits


(***************************************************************************)
(* SpecHistory: one EnhancedConfigManager from its construction on, with   *)
(* its change history.  Every call holds config_lock from its first        *)
(* statement to its return.  A change is [path, source, serial]; serial    *)
(* counts the changes ever recorded and stands for the timestamp.  The     *)
(* limit of 1000 changes is scaled to MaxHistory.                          *)
(***************************************************************************)
MaxHistory == 3

MaxRecorded == 5

\* Python == on JSON values: numbers by value, lists and dicts by content
RECURSIVE Json_equal(_, _)
Json_equal(x, y) ==
    IF IsNumber(x) /\ IsNumber(y) THEN Tenths(x) = Tenths(y)
    ELSE IF x.t # y.t THEN FALSE
    ELSE IF x.t = "arr"
         THEN /\ Len(x.v) = Len(y.v)
              /\ \A i \in 1..Len(x.v) : Json_equal(x.v[i], y.v[i])
    ELSE IF x.t = "obj"
         THEN /\ DOMAIN x.v = DOMAIN y.v
              /\ \A k \in DOMAIN x.v : Json_equal(x.v[k], y.v[k])
    ELSE x.v = y.v

\* EnhancedConfigManager._get_default_config
Config_get_default_config ==
    Obj(Dict(<<
        <<<<"t", "i", "t", "l", "e", "_", "c", "l", "e", "a", "n", "i", "n",
            "g", "_", "r", "u", "l", "e", "s">>,
          Obj(Dict(<< <<<<"p", "r", "e", "f", "i", "x", "e", "s">>, Arr(<<Str(<<"u767B", "u5F55", " ", "|">>), Str(<<"S", "i", "g", "n", " ", "i", "n", " ", "u00B7">>)>>)>>,
                      <<<<"s", "u", "f", "f", "i", "x", "e", "s">>, Arr(<<Str(<<"-", " ", "V", "2", "E", "X">>), Str(<<"u00B7", " ", "G", "i", "t", "H", "u", "b">>)>>)>>,
                      <<<<"r", "e", "p", "l", "a", "c", "e", "m", "e", "n",
                        "t", "s">>,
                        Obj(Dict(<< <<<<"&", "a", "m", "p", ";">>, Str(<<"&">>)>>,
                                    <<<<"&", "l", "t", ";">>, Str(<<"<">>)>>,
                                    <<<<"&", "g", "t", ";">>, Str(<<">">>)>> >>))>> >>))>>,
        <<<<"a", "d", "v", "a", "n", "c", "e", "d", "_", "s", "e", "t", "t",
            "i", "n", "g", "s">>,
          Obj(Dict(<< <<<<"c", "l", "a", "s", "s", "i", "f", "i", "c", "a",
                        "t", "i", "o", "n", "_", "t", "h", "r", "e", "s",
                        "h", "o", "l", "d">>, JsonFloat(6)>>,
                      <<<<"l", "e", "a", "r", "n", "i", "n", "g", "_", "r",
                        "a", "t", "e">>, JsonFloat(1)>>,
                      <<<<"m", "a", "x", "_", "c", "a", "t", "e", "g", "o",
                        "r", "i", "e", "s">>, JsonInt(50)>>,
                      <<<<"c", "a", "c", "h", "e", "_", "s", "i", "z", "e">>, JsonInt(10000)>> >>))>>,
        <<<<"c", "a", "t", "e", "g", "o", "r", "y", "_", "r", "u", "l", "e",
            "s">>,
          Obj(Dict(<< <<<<"u672A", "u5206", "u7C7B">>,
                        Obj(Dict(<< <<<<"r", "u", "l", "e", "s">>,
                                      Arr(<< Obj(Dict(<<
                                          <<<<"m", "a", "t", "c", "h">>, Str(<<"t", "i", "t", "l", "e">>)>>,
                                          <<<<"k", "e", "y", "w", "o", "r",
                                              "d", "s">>, Arr(<<Str(<<".", "*">>)>>)>>,
                                          <<<<"w", "e", "i", "g", "h", "t">>, JsonInt(1)>> >>)) >>)>> >>))>> >>))>>,
        <<<<"c", "a", "t", "e", "g", "o", "r", "y", "_", "o", "r", "d", "e",
            "r">>, Arr(<<Str(<<"u672A", "u5206", "u7C7B">>)>>)>> >>))

\* the keys of a dict in the order of iteration (one order, the same for
\* every dict)
RECURSIVE Keys(_)
Keys(S) ==
    IF S = {} THEN <<>>
    ELSE LET key == CHOOSE k \in S : TRUE IN <<key>> \o Keys(S \ {key})

\* EnhancedConfigManager._find_changes(old_config, new_config, path): the
\* paths of the added and modified keys, a dict that changed into a dict
\* searched in turn, and then of the deleted keys
RECURSIVE Config_find_changes(_, _, _)
Config_find_changes(old_config, new_config, path) ==
    LET current_path(key) == IF path = <<>> THEN key ELSE path \o <<".">> \o key
        RECURSIVE changed(_)
        changed(keys) ==
            IF keys = <<>> THEN <<>>
            ELSE (IF keys[1] \notin DOMAIN old_config THEN <<current_path(keys[1])>>
                  ELSE IF Json_equal(old_config[keys[1]], new_config[keys[1]]) THEN <<>>
                  ELSE IF new_config[keys[1]].t = "obj" /\ old_config[keys[1]].t = "obj"
                       THEN Config_find_changes(old_config[keys[1]].v,
                                                new_config[keys[1]].v, current_path(keys[1]))
                  ELSE <<current_path(keys[1])>>)
                 \o changed(Tail(keys))
        deleted(keys) ==
            <<>> \o [i \in 1..Len(keys) |-> current_path(keys[i])]
    IN  changed(Keys(DOMAIN new_config))
            \o deleted(Keys(DOMAIN old_config \ DOMAIN new_config))

\* config_history.append(change) for the changes of the paths
History_append(h, paths, source) ==
    [config_history |->
        h.config_history \o [i \in 1..Len(paths) |->
                                [path |-> paths[i], source |-> source,
                                 serial |-> h.recorded + i]],
     recorded |-> h.recorded + Len(paths)]

\* EnhancedConfigManager._record_changes: the changes are appended and the
\* last MaxHistory entries are kept
Config_record_changes(h, old_config, new_config) ==
    LET appended == History_append(h, Config_find_changes(old_config.v, new_config.v, <<>>),
                                   "config_reload")
        kept(all) == IF Len(all) > MaxHistory
                     THEN SubSeq(all, Len(all) - MaxHistory + 1, Len(all)) ELSE all
    IN  [appended EXCEPT !.config_history = kept(@)]

\* reload_config with its history: a rejected reload records nothing
History_reload_config(h, file, env) ==
    LET reloaded == Config_reload_config(h.config, file, env)
        recorded == IF reloaded.ok
                    THEN Config_record_changes(h, h.config, reloaded.config)
                    ELSE [config_history |-> h.config_history, recorded |-> h.recorded]
    IN  [h EXCEPT !.config = reloaded.config,
                  !.config_history = recorded.config_history,
                  !.recorded = recorded.recorded,
                  !.last = [name |-> "reload", ok |-> reloaded.ok]]

\* EnhancedConfigManager.__init__ with _load_initial_config: config is {},
\* reload_config and start_file_monitoring run; both catch every exception
\* they meet, so none reaches the handler that assigns the default
\* configuration
Config_load_initial_config(h, file, env) ==
    LET raised == FALSE
        reloaded == History_reload_config([h EXCEPT !.config = Obj(<<>>)], file, env)
    IN  [reloaded EXCEPT !.config = IF raised THEN Config_get_default_config ELSE @,
                         !.last = [name |-> "construct", ok |-> reloaded.last.ok],
                         !.pc = "ready"]

InitHistory ==
    /\ \E file \in ConfigFiles, env \in ConfigEnvs :
          ch = [file |-> file, env |-> env, config |-> Obj(<<>>), config_history |-> <<>>,
                recorded |-> 0, last |-> [name |-> "none"], pc |-> "new"]
    /\ OthersIdle("ch")

\* EnhancedConfigManager(primary_config_path)
HistoryConstruct ==
    /\ ch.pc = "new"
    /\ ch' = Config_load_initial_config(ch, ch.file, ch.env)
    /\ OthersUnchanged("ch")

\* the configuration file is rewritten
HistoryWriteFile ==
    /\ ch.pc = "ready"
    /\ \E file \in ConfigFiles \ {ch.file} : ch' = [ch EXCEPT !.file = file]
    /\ OthersUnchanged("ch")

\* EnhancedConfigManager.reload_config
HistoryReload ==
    /\ ch.pc = "ready"
    /\ ch.recorded < MaxRecorded
    /\ ch' = History_reload_config(ch, ch.file, ch.env)
    /\ OthersUnchanged("ch")

\* EnhancedConfigManager.set(path, value): the change is appended to the
\* history; a call that raises appends nothing
History_set(h, path, value) ==
    LET result == Config_set(h.config, path, value)
        appended == History_append(h, <<path>>, "manual_set")
    IN  IF result.raises THEN [h EXCEPT !.last = [name |-> "set", raises |-> TRUE]]
        ELSE [h EXCEPT !.config = result.config,
                       !.config_history = appended.config_history,
                       !.recorded = appended.recorded,
                       !.last = [name |-> "set", raises |-> FALSE]]

HistorySet ==
    /\ ch.pc = "ready"
    /\ ch.recorded < MaxRecorded
    /\ \E c \in ConfigSets : ch' = History_set(ch, c.path, c.value)
    /\ OthersUnchanged("ch")

NextHistory == HistoryConstruct \/ HistoryWriteFile \/ HistoryReload \/ HistorySet

SpecHistory == InitHistory /\ [][NextHistory]_vars

\* C23: the configuration change history is bounded: after any sequence of
\* reload_config and set calls config_history holds at most 1000 (here
\* MaxHistory) entries, and they are the most recent changes recorded
C23_HistoryBounded ==
    /\ Len(ch.config_history) <= MaxHistory
    /\ \A i \in 1..Len(ch.config_history) :
          ch.config_history[i].serial = ch.recorded - Len(ch.config_history) + i

\* C24: when the initial configuration cannot be loaded (the file is
\* missing, is no valid JSON object or fails validation), the manager starts
\* with the configuration of _get_default_config
C24_DefaultOnFailedLoad ==
    (ch.last.name = "construct" /\ ~ch.last.ok) =>
        Json_equal(ch.config, Config_get_default_config)


(***************************************************************************)
(* SpecMonitor: one PerformanceMonitor, one caller that calls              *)
(* start_monitoring and stop_monitoring one after the other, and the       *)
(* monitor threads the calls start.  Time passes in whole seconds: a       *)
(* thread that is not asleep and a join that can return act before the     *)
(* clock ticks; the 0.1 s of psutil.cpu_percent count as no time.          *)
(***************************************************************************)
MaxMonitorCalls == 4

MaxMetrics == 3

JoinTimeout == 2

MonitorIntervals == {1, 3}

InitMonitor ==
    /\ mon = [monitoring |-> FALSE, monitor_thread |-> 0, threads |-> <<>>,
              system_metrics |-> <<>>, caller |-> "idle", join_left |-> 0,
              calls |-> 0, stops |-> 0]
    /\ OthersIdle("mon")

\* PerformanceMonitor.start_monitoring(interval)
MonitorStart ==
    /\ mon.caller = "idle"
    /\ mon.calls < MaxMonitorCalls
    /\ \E interval \in MonitorIntervals :
          mon' = IF mon.monitoring THEN [mon EXCEPT !.calls = @ + 1]
                 ELSE [mon EXCEPT !.calls = @ + 1,
                                  !.monitoring = TRUE,
                                  !.threads = Append(@, [pc |-> "test", interval |-> interval,
                                                         left |-> 0, epoch |-> mon.stops]),
                                  !.monitor_thread = Len(mon.threads) + 1]
    /\ OthersUnchanged("mon")

\* PerformanceMonitor.stop_monitoring up to monitor_thread.join(timeout=2)
MonitorStop ==
    /\ mon.caller = "idle"
    /\ mon.calls < MaxMonitorCalls
    /\ mon' = IF mon.monitor_thread # 0
              THEN [mon EXCEPT !.calls = @ + 1, !.monitoring = FALSE,
                               !.caller = "joining", !.join_left = JoinTimeout]
              ELSE [mon EXCEPT !.calls = @ + 1, !.monitoring = FALSE, !.stops = @ + 1]
    /\ OthersUnchanged("mon")

\* join returns: the thread has ended or the timeout has passed
Monitor_join_returns(m) ==
    m.caller = "joining" /\ (m.threads[m.monitor_thread].pc = "done" \/ m.join_left = 0)

\* stop_monitoring returns
MonitorJoined ==
    /\ Monitor_join_returns(mon)
    /\ mon' = [mon EXCEPT !.caller = "idle", !.join_left = 0, !.stops = @ + 1]
    /\ OthersUnchanged("mon")

\* _monitor_system: while self.monitoring
MonitorTest ==
    /\ \E t \in 1..Len(mon.threads) :
          /\ mon.threads[t].pc = "test"
          /\ mon' = [mon EXCEPT !.threads[t].pc = IF mon.monitoring THEN "sample" ELSE "done"]
    /\ OthersUnchanged("mon")

\* system_metrics.append on a deque(maxlen=max_history)
Monitor_append(system_metrics, metrics) ==
    LET all == Append(system_metrics, metrics)
    IN  IF Len(all) > MaxMetrics THEN Tail(all) ELSE all

\* _monitor_system: the body of the loop up to time.sleep(interval); a
\* sample carries its thread and whether a stop_monitoring call made after
\* the thread started had returned when it was appended
MonitorSample ==
    /\ \E t \in 1..Len(mon.threads) :
          /\ mon.threads[t].pc = "sample"
          /\ mon' = [mon EXCEPT
                !.system_metrics = Monitor_append(@, [thread |-> t,
                                                     late |-> mon.stops > mon.threads[t].epoch]),
                !.threads[t].pc = "sleep",
                !.threads[t].left = mon.threads[t].interval]
    /\ OthersUnchanged("mon")

\* one second passes
MonitorTick ==
    /\ \A t \in 1..Len(mon.threads) : mon.threads[t].pc \notin {"test", "sample"}
    /\ ~Monitor_join_returns(mon)
    /\ mon.caller = "joining" \/ \E t \in 1..Len(mon.threads) : mon.threads[t].pc = "sleep"
    /\ mon' = [mon EXCEPT
          !.join_left = IF mon.caller = "joining" THEN @ - 1 ELSE @,
          !.threads = [t \in 1..Len(mon.threads) |->
                          IF mon.threads[t].pc # "sleep" THEN mon.threads[t]
                          ELSE IF mon.threads[t].left = 1
                               THEN [mon.threads[t] EXCEPT !.pc = "test", !.left = 0]
                          ELSE [mon.threads[t] EXCEPT !.left = @ - 1]]]
    /\ OthersUnchanged("mon")

NextMonitor ==
    MonitorStart \/ MonitorStop \/ MonitorJoined \/ MonitorTest \/ MonitorSample \/ MonitorTick

SpecMonitor == InitMonitor /\ [][NextMonitor]_vars

\* C25: at most one monitor thread samples at any time, and once
\* stop_monitoring has returned no thread started before that stop records
\* further system metrics, also when start_monitoring is called again at once
C25_OneSampler ==
    /\ Cardinality({t \in 1..Len(mon.threads) : mon.threads[t].pc = "sample"}) <= 1
    /\ \A i \in 1..Len(mon.system_metrics) : ~mon.system_metrics[i].late

\* start_monitoring while monitoring starts no thread and changes no field
Monitor_start_is_noop ==
    [][(mon.monitoring /\ mon.caller = "idle" /\ mon'.calls = mon.calls + 1 /\ mon'.monitoring)
          => (mon'.threads = mon.threads /\ mon'.monitor_thread = mon.monitor_thread)]_vars

\* with intervals shorter than the join timeout every stop ends its thread
Monitor_short_intervals_hold ==
    (\A t \in 1..Len(mon.threads) : mon.threads[t].interval < JoinTimeout) => C25_OneSampler


(***************************************************************************)
(* SpecLru: one CacheManager and the threads that call it.  cache,         *)
(* access_times and creation_times are dicts, sequences of <<key, value>>  *)
(* in insertion order.  time.time() is a clock that has advanced at every  *)
(* reading.  get, delete, clear and _evict_lru are one step each; set is   *)
(* its size test, the eviction and the three stores.                       *)
(***************************************************************************)
MaxLruSize == 2

MaxLruThreads == 2

MaxLruCalls == 4

LruKeys == {1, 2, 3}

LruValues == {1, 2}

LruTtls == {3, 100}

\* key in d
DictHas(d, key) == \E k \in 1..Len(d) : d[k][1] = key

\* d.pop(key, None)
DictPop(d, key) == SelectSeq(d, LAMBDA pair : pair[1] # key)

\* CacheManager.delete(key)
Lru_delete(c, key) ==
    [c EXCEPT !.cache = DictPop(@, key),
              !.access_times = DictPop(@, key),
              !.creation_times = DictPop(@, key)]

\* min(self.access_times, key=self.access_times.get): the first key, in the
\* order of the dict, whose access time is the smallest
Lru_min(access_times) ==
    access_times[CHOOSE i \in 1..Len(access_times) :
                    /\ \A j \in 1..Len(access_times) : access_times[j][2] >= access_times[i][2]
                    /\ \A j \in 1..(i - 1) : access_times[j][2] > access_times[i][2]][1]

\* CacheManager._evict_lru
Lru_evict_lru(c) ==
    IF c.access_times = <<>> THEN c
    ELSE [Lru_delete(c, Lru_min(c.access_times)) EXCEPT
              !.evicted = [key |-> Lru_min(c.access_times), before |-> c.access_times]]

\* CacheManager.get(key)
Lru_get(c, key) ==
    IF ~DictHas(c.cache, key) THEN [c EXCEPT !.last = [name |-> "get", key |-> key, hit |-> FALSE]]
    ELSE IF (c.now + 1) - DictGet(c.creation_times, key, 0) > c.ttl
         THEN [Lru_delete(c, key) EXCEPT !.now = c.now + 1,
                                         !.last = [name |-> "get", key |-> key, hit |-> FALSE]]
    ELSE [c EXCEPT !.now = c.now + 2,
                   !.access_times = DictSet(@, key, c.now + 2),
                   !.last = [name |-> "get", key |-> key, hit |-> TRUE]]

InitLru ==
    /\ \E max_size \in 1..MaxLruSize, ttl \in LruTtls, n \in 1..MaxLruThreads :
          lru = [max_size |-> max_size, ttl |-> ttl, cache |-> <<>>, access_times |-> <<>>,
                 creation_times |-> <<>>, now |-> 0,
                 threads |-> [t \in 1..n |-> [pc |-> "idle"]], calls |-> 0,
                 last |-> [name |-> "none"], evicted |-> [key |-> 0, before |-> <<>>]]
    /\ OthersIdle("lru")

\* a thread that is in no call starts one
Lru_may_call(t) == lru.threads[t].pc = "idle" /\ lru.calls < MaxLruCalls

LruGet ==
    /\ \E t \in 1..Len(lru.threads), key \in LruKeys :
          /\ Lru_may_call(t)
          /\ lru' = [Lru_get(lru, key) EXCEPT !.calls = @ + 1]
    /\ OthersUnchanged("lru")

\* CacheManager.set(key, value): if len(self.cache) >= self.max_size
LruSetTest ==
    /\ \E t \in 1..Len(lru.threads), key \in LruKeys, value \in LruValues :
          /\ Lru_may_call(t)
          /\ lru' = [lru EXCEPT
                !.calls = @ + 1,
                !.threads[t] = [pc |-> IF Len(lru.cache) >= lru.max_size
                                       THEN "evict" ELSE "store",
                                key |-> key, value |-> value,
                                existed |-> DictHas(lru.cache, key),
                                full |-> Len(lru.cache) >= lru.max_size,
                                evicted |-> {}]]
    /\ OthersUnchanged("lru")

\* CacheManager.set: self._evict_lru()
LruSetEvict ==
    /\ \E t \in 1..Len(lru.threads) :
          /\ lru.threads[t].pc = "evict"
          /\ lru' = [Lru_evict_lru(lru) EXCEPT
                !.threads[t].pc = "store",
                !.threads[t].evicted = {pair[1] : pair \in {lru.cache[i] : i \in 1..Len(lru.cache)}}
                                          \ {pair[1] : pair \in {Lru_evict_lru(lru).cache[i] :
                                                i \in 1..Len(Lru_evict_lru(lru).cache)}}]
    /\ OthersUnchanged("lru")

\* CacheManager.set: the stores into cache, access_times and creation_times
LruSetStore ==
    /\ \E t \in 1..Len(lru.threads) :
          /\ lru.threads[t].pc = "store"
          /\ lru' = [lru EXCEPT
                !.now = @ + 1,
                !.cache = DictSet(@, lru.threads[t].key, lru.threads[t].value),
                !.access_times = DictSet(@, lru.threads[t].key, lru.now + 1),
                !.creation_times = DictSet(@, lru.threads[t].key, lru.now + 1),
                !.last = [name |-> "set", key |-> lru.threads[t].key,
                          value |-> lru.threads[t].value,
                          existed |-> lru.threads[t].existed, full |-> lru.threads[t].full,
                          evicted |-> lru.threads[t].evicted],
                !.threads[t] = [pc |-> "idle"]]
    /\ OthersUnchanged("lru")

LruDelete ==
    /\ \E t \in 1..Len(lru.threads), key \in LruKeys :
          /\ Lru_may_call(t)
          /\ lru' = [Lru_delete(lru, key) EXCEPT !.calls = @ + 1,
                                                 !.last = [name |-> "delete", key |-> key]]
    /\ OthersUnchanged("lru")

\* CacheManager.clear
LruClear ==
    /\ \E t \in 1..Len(lru.threads) :
          /\ Lru_may_call(t)
          /\ lru' = [lru EXCEPT !.calls = @ + 1, !.cache = <<>>, !.access_times = <<>>,
                                !.creation_times = <<>>, !.last = [name |-> "clear"]]
    /\ OthersUnchanged("lru")

NextLru == LruGet \/ LruSetTest \/ LruSetEvict \/ LruSetStore \/ LruDelete \/ LruClear

SpecLru == InitLru /\ [][NextLru]_vars

\* C26: CacheManager never holds more than max_size entries, whatever the
\* threads call, and the entry removed to make room is the one whose last
\* access is the oldest
C26_WithinMaxSize ==
    /\ Len(lru.cache) <= lru.max_size
    /\ \A i \in 1..Len(lru.evicted.before) :
          lru.evicted.before[i][2] >= DictGet(lru.evicted.before, lru.evicted.key, 0)

\* calls made one after the other keep the cache within max_size
Lru_sequential_within_size ==
    Len(lru.threads) = 1 => C26_WithinMaxSize

\* C27: set on a key that is already cached replaces its value and evicts
\* no other entry: a set call evicts another entry only when its key is new
\* and the cache holds max_size entries
C27_SetEvictsOnlyForNewKey ==
    lru.last.name = "set" =>
        /\ (\A t \in 1..Len(lru.threads) : lru.threads[t].pc = "idle") =>
              DictGet(lru.cache, lru.last.key, 0) = lru.last.value
        /\ lru.last.evicted \ {lru.last.key} # {} => (~lru.last.existed /\ lru.last.full)


(***************************************************************************)
(* SpecEmoji: clean_title on a title, applied once and again, and the      *)
(* title of a bookmark that is loaded from a file, exported with its       *)
(* confidence indicator and loaded again.  The titles hold no markup       *)
(* characters, so that the text of the link is the text that was written.  *)
(***************************************************************************)
MaxTitleLen == 4

MaxRounds == 2

EmojiChars == {"green", "star", " ", "x"}

EmojiTitles == UNION {[1..n -> EmojiChars] : n \in 0..MaxTitleLen}

EmojiConfidences == {0, 50, 95}

\* the text of the link of an exported line: what stands between the end
\* of the opening tag and the closing tag
Emoji_link_string(line) ==
    SubSeq(line, Find(line, ">", Find(line, ">", 1) + 1) + 1, Len(line) - 4)

\* BookmarkProcessor._load_bookmarks_from_file: the title of a link with
\* the text text
Emoji_load_title(text) == clean_title(LStrip(RStrip(text, Blank), Blank))

InitEmoji ==
    /\ \E title \in EmojiTitles :
          emo = [title |-> title, cleaned |-> <<>>, again |-> <<>>, text |-> title,
                 loaded |-> <<>>, first |-> <<>>, rounds |-> 0, pc |-> "new"]
    /\ OthersIdle("emo")

\* clean_title(title)
EmojiClean ==
    /\ emo.pc = "new"
    /\ emo' = [emo EXCEPT !.cleaned = clean_title(emo.title), !.pc = "cleaned"]
    /\ OthersUnchanged("emo")

\* clean_title(clean_title(title))
EmojiCleanAgain ==
    /\ emo.pc = "cleaned"
    /\ emo' = [emo EXCEPT !.again = clean_title(emo.cleaned), !.pc = "again"]
    /\ OthersUnchanged("emo")

\* the file is loaded
EmojiLoad ==
    /\ emo.pc \in {"again", "exported"}
    /\ emo' = [emo EXCEPT !.loaded = Emoji_load_title(emo.text),
                          !.first = IF emo.pc = "again" THEN Emoji_load_title(emo.text) ELSE @,
                          !.pc = "loaded"]
    /\ OthersUnchanged("emo")

\* the loaded bookmark is exported with a confidence
EmojiExport ==
    /\ emo.pc = "loaded"
    /\ emo.rounds < MaxRounds
    /\ \E confidence \in EmojiConfidences :
          emo' = [emo EXCEPT
                !.text = Emoji_link_string(Exporter_format_bookmark_html(
                             [url |-> <<"u">>, title |-> emo.loaded, add_date |-> <<>>,
                              confidence |-> confidence], <<>>, TRUE)),
                !.rounds = @ + 1,
                !.pc = "exported"]
    /\ OthersUnchanged("emo")

NextEmoji == EmojiClean \/ EmojiCleanAgain \/ EmojiLoad \/ EmojiExport

SpecEmoji == InitEmoji /\ [][NextEmoji]_vars

\* a text begins with an indicator emoji
Emoji_begins_with_indicator(text) == text # <<>> /\ text[1] \in DEFAULT_PREFIX_EMOJIS

\* C28: clean_title is idempotent, clean_title(clean_title(t)) =
\* clean_title(t) for every title t, and its result does not begin with an
\* indicator emoji
C28_CleanTitleIdempotent ==
    /\ emo.pc \notin {"idle", "new"} => ~Emoji_begins_with_indicator(emo.cleaned)
    /\ emo.pc \notin {"idle", "new", "cleaned"} => emo.again = emo.cleaned

\* a title that was loaded comes back as it was from every export and load,
\* without an indicator emoji at its start
Emoji_round_trip_stable ==
    emo.pc = "loaded" =>
        emo.loaded = emo.first /\ ~Emoji_begins_with_indicator(emo.loaded)

====
